---------------------------- MODULE Spec2Model ----------------------------
(***************************************************************************)
(* The video generation pipeline of the Arabella AI studio backend: the    *)
(* Redis job queue, the video worker and its polling loop, the use case's  *)
(* intake and cancellation, the provider selector and the WebSocket hub.   *)
(*                                                                         *)
(* One specification per subsystem; they share the operators that model    *)
(* the code:                                                               *)
(*   Spec          intake, queue, worker tasks and CancelJob, interleaved  *)
(*   SpecQueue     the queue alone, with more jobs and payload expiry      *)
(*   SpecPoll      one worker task alone, with a longer polling loop       *)
(*   SpecSelector  ProviderSelectorImpl.SelectProvider on drawn registries *)
(*   SpecHub       the hub's indices, subscriptions and broadcasts         *)
(***************************************************************************)
EXTENDS Integers, Sequences, FiniteSets, TLC

(***************************************************************************)
(* Bounds of the model.                                                    *)
(***************************************************************************)
MaxJobs == 1          \* job ids of the interleaved specification
MaxQueueJobs == 3     \* job ids of the queue specification
MaxTicks == 2         \* polling ticks per job in the interleaved specification
MaxPollTicks == 10    \* polling ticks of the single-task specification
MaxDbErrors == 1      \* storage calls that fail in one behaviour
MaxCancelCalls == 2   \* CancelJob calls in one behaviour
MaxBuffer == 1        \* capacity of a client's Send channel in the hub model
MaxBroadcasts == 2    \* broadcasts in one behaviour of the hub model
MaxRequests == 2      \* concurrent GenerateVideo requests of the credits specification
MaxWorkerJobs == 2    \* jobs of the several-jobs worker specification

(***************************************************************************)
(* Program constants.                                                      *)
(***************************************************************************)
maxAttempts == 360
Float64Spacing == 256   \* gap between the float64 values next to a UnixNano()
maxConsecutiveErrors == 5
DefaultCredits == 5
DefaultDuration == 15

JobIds == 1..MaxJobs
QueueJobIds == 1..MaxQueueJobs
Users == {"u1", "u2"}
Callers == {"c1", "c2"}
Requests == 1..MaxRequests
DequeueCallers == {"w1", "w2"}
WorkerJobIds == 1..MaxWorkerJobs

\* entity.JobStatus
JobStatusPending == "pending"
JobStatusProcessing == "processing"
JobStatusDiffusing == "diffusing"
JobStatusUploading == "uploading"
JobStatusCompleted == "completed"
JobStatusFailed == "failed"
JobStatusCancelled == "cancelled"

WireStatuses ==
  {JobStatusPending, JobStatusProcessing, JobStatusDiffusing, JobStatusUploading,
   JobStatusCompleted, JobStatusFailed, JobStatusCancelled}

\* entity.AIProvider; "" is the zero value of a job that was never bound
ProviderWanAI == "wan_ai"
ProviderMock == "mock"
ProviderGeminiVEO == "gemini_veo"
Providers == {ProviderWanAI, ProviderMock, ProviderGeminiVEO}

\* a nil *string
Nil == "<nil>"

NoJob == [absent |-> TRUE]
NoProj == [absent |-> TRUE]
NoEvent == [absent |-> TRUE]

VARIABLES
  jobs,               \* video_jobs table: job id -> row, or NoJob
  credits,            \* users.credits: user -> balance
  zset,               \* arabella:jobs:queue : set of [score, member]
  jobData,            \* arabella:jobs:data:<id> : job id -> payload, or NoJob
  statusProj,         \* arabella:jobs:status:<id> : job id -> [status, progress]
  now,                \* the wall clock read by Enqueue
  wpc,                \* job id -> place of its processJob goroutine
  wjob,               \* job id -> the goroutine's *entity.VideoJob
  attempts,           \* job id -> pollForCompletion's attempts
  consecutiveErrors,  \* job id -> pollForCompletion's consecutiveErrors
  wprov,              \* job id -> the provider SelectProvider returned
  wmsg,               \* job id -> the message of the failJob call to come
  errRun,             \* job id -> GetProgress errors since the last answer
  progressCalls,      \* job id -> GetProgress calls made for it
  events,             \* job id -> event types passed to BroadcastToJob, in order
  lastEvent,          \* job id -> payload of the latest BroadcastToJob call
  cpc,                \* caller -> place in CancelJob
  cjob,               \* caller -> CancelJob's job (from GetByID)
  ctarget,            \* caller -> [user, job] arguments of its CancelJob call
  cres,               \* the latest return of a CancelJob call
  cancelCalls,        \* CancelJob calls started
  dbErrs,             \* storage calls that failed
  tickCap,            \* polling ticks explored per job
  plan,               \* what the provider answers to GetProgress, tick by tick
  gpc,                \* request -> place in GenerateVideo
  greq,               \* request -> [user, cost] of its GenerateVideo call
  gres,               \* request -> what its GenerateVideo call returned
  stopClosed,         \* VideoWorker.stopChan was closed
  ctxCancelled,       \* the context given to Start was cancelled
  runpc,              \* place of VideoWorker.run: "running" or "stopped"
  qret,               \* what the queue call of the last step returned to its caller
  dq,                 \* Dequeue caller -> member it popped and has not read yet, or 0
  enqOrder,           \* job ids in the order Enqueue returned nil for them
  deqOrder,           \* job ids in the order Dequeue returned them
  anyExpired,         \* some payload key has expired
  registry,           \* ProviderRegistry.providers (the registered names)
  caps,               \* provider -> ProviderCapabilities
  selReq,             \* the latest ProviderSelectionRequest
  selEnv,             \* the HealthCheck answers and GetAll() order it met
  selOut,             \* what SelectProvider returned for it
  clients,            \* Hub.clients
  userClients,        \* Hub.userClients: user -> clients
  jobClients,         \* Hub.jobClients: job -> clients
  clientUserID,       \* client -> Client.UserID
  clientJobID,        \* client -> Client.JobID (Nil: none)
  Send,               \* client -> number of messages buffered in Client.Send
  sendClosed,         \* client -> close(client.Send) was called
  rpc,                \* client -> place of its handler and readPump
  hubRun,             \* what Hub.Run is doing
  bcast,              \* the BroadcastToJob call in progress
  broadcasts,         \* BroadcastToJob calls started
  panicked,           \* a goroutine sent on a closed channel
  resub               \* client -> its latest change of subscription

qvars == <<zset, jobData, statusProj, now, enqOrder, deqOrder, anyExpired>>
wvars == <<wpc, wjob, attempts, consecutiveErrors, wprov, wmsg, errRun, progressCalls>>
evars == <<events, lastEvent>>
cvars == <<cpc, cjob, ctarget, cres, cancelCalls>>
svars == <<registry, caps, selReq, selEnv, selOut>>
hvars == <<clients, userClients, jobClients, clientUserID, clientJobID, Send,
           sendClosed, rpc, hubRun, bcast, broadcasts, panicked, resub>>
gvars == <<gpc, greq, gres>>
stvars == <<stopClosed, ctxCancelled, runpc>>
\* everything but the hub
pvars == <<jobs, credits, qvars, wvars, evars, cvars, svars, dbErrs, tickCap,
           plan, gvars, stvars, qret, dq>>
vars == <<pvars, hvars>>

(***************************************************************************)
(* entity.VideoJob                                                         *)
(***************************************************************************)
NewVideoJob(userID, duration, creditCost) ==
  [userID |-> userID, duration |-> duration, status |-> JobStatusPending,
   progress |-> 0, provider |-> "", providerJobID |-> Nil, videoURL |-> Nil,
   thumbnailURL |-> Nil, durationSeconds |-> 0, creditsCharged |-> creditCost,
   errorMessage |-> Nil]

StartProcessing(j, provider) ==
  [j EXCEPT !.status = JobStatusProcessing, !.provider = provider]

UpdateProgress(j, progress, status) ==
  [j EXCEPT !.progress = progress, !.status = status]

SetProviderJobID(j, providerJobID) ==
  [j EXCEPT !.providerJobID = providerJobID]

\* (mutation) Complete without line 92: the progress is left as it was
CompleteKeepingProgress(j, videoURL, thumbnailURL, duration) ==
  [j EXCEPT !.status = JobStatusCompleted,
            !.videoURL = videoURL, !.thumbnailURL = thumbnailURL,
            !.durationSeconds = duration]

\* (mutation) Complete leaving the thumbnail as it was
CompleteWithoutThumbnail(j, videoURL, thumbnailURL, duration) ==
  [j EXCEPT !.status = JobStatusCompleted, !.progress = 100,
            !.videoURL = videoURL, !.durationSeconds = duration]

Complete(j, videoURL, thumbnailURL, duration) ==
  [j EXCEPT !.status = JobStatusCompleted, !.progress = 100,
            !.videoURL = videoURL, !.thumbnailURL = thumbnailURL,
            !.durationSeconds = duration]

Fail(j, errorMessage) ==
  [j EXCEPT !.status = JobStatusFailed, !.errorMessage = errorMessage]

Cancel(j) ==
  [j EXCEPT !.status = JobStatusCancelled]

IsTerminal(j) ==
  j.status \in {JobStatusCompleted, JobStatusFailed, JobStatusCancelled}

\* (mutation) CanBeCancelled that refuses only a cancelled job
CanBeCancelledUnlessCancelled(j) ==
  j.status # JobStatusCancelled

CanBeCancelled(j) ==
  j.status \in {JobStatusPending, JobStatusProcessing}

(***************************************************************************)
(* VideoJobRepositoryPostgres.Update: the UPDATE overwrites the mutable    *)
(* columns of the row with the caller's copy, whatever the row holds.      *)
(***************************************************************************)
UpdatedRow(row, j) ==
  [row EXCEPT !.status = j.status, !.progress = j.progress,
              !.provider = j.provider, !.providerJobID = j.providerJobID,
              !.videoURL = j.videoURL, !.thumbnailURL = j.thumbnailURL,
              !.durationSeconds = j.durationSeconds,
              !.errorMessage = j.errorMessage]

\* a storage call may fail while the failure budget lasts
CanFail == dbErrs < MaxDbErrors

(***************************************************************************)
(* RedisQueue.  The sorted set orders its members by score and, for equal  *)
(* scores, by member; ZADD of a present member replaces its score.         *)
(***************************************************************************)
ZLess(a, b) ==
  \/ a.score < b.score
  \/ a.score = b.score /\ a.member < b.member

ZAdd(z, score, member) ==
  {e \in z : e.member # member} \cup {[score |-> score, member |-> member]}

\* (mutation) the least member, whatever the scores
ZPopMinByMember(z) == CHOOSE e \in z : \A f \in z : f = e \/ f.member > e.member

\* the entry ZPOPMIN removes
ZPopMin(z) == CHOOSE e \in z : \A f \in z : f = e \/ ZLess(e, f)

ZRem(z, member) == {e \in z : e.member # member}

EnqueueOutcomes == {"ok", "setErr", "zaddErr"}

\* float64(n) of an int64 n beyond 2^53: the nearest representable value,
\* the even one of two that are equally near
Float64(n) ==
  LET q == n \div Float64Spacing
      r == n % Float64Spacing
  IN IF 2 * r < Float64Spacing THEN q * Float64Spacing
     ELSE IF 2 * r > Float64Spacing THEN (q + 1) * Float64Spacing
     ELSE IF q % 2 = 0 THEN q * Float64Spacing
     ELSE (q + 1) * Float64Spacing

\* nanoseconds between the clock readings of two Enqueue calls of which the
\* second starts after the first returned (two Redis round trips lie between
\* them): more than the gap between two float64 values
MinClockStep == Float64Spacing + 1
ClockSteps == {MinClockStep, 2 * Float64Spacing, 3 * Float64Spacing + 128}

\* Enqueue(job), elapsed nanoseconds after the previous one: SET of the
\* payload, then ZADD scored by float64(time.Now().UnixNano())
Enqueue(id, job, elapsed, outcome) ==
  /\ outcome \in EnqueueOutcomes
  /\ now' = now + elapsed
  /\ jobData' = IF outcome = "setErr" THEN jobData
                ELSE [jobData EXCEPT ![id] = job]
  /\ zset' = IF outcome = "ok" THEN ZAdd(zset, Float64(now'), id) ELSE zset
  /\ enqOrder' = IF outcome = "ok" THEN Append(enqOrder, id) ELSE enqOrder
  /\ UNCHANGED <<statusProj, deqOrder, anyExpired>>

DequeueOutcomes == {"ok", "popErr", "getErr"}

\* Dequeue() returning job id (0: a nil job, with or without an error)
Dequeue(id, outcome) ==
  /\ outcome \in DequeueOutcomes
  /\ IF outcome = "popErr" \/ zset = {}
     THEN id = 0 /\ UNCHANGED <<zset, deqOrder>>
     ELSE LET e == ZPopMin(zset) IN
          /\ zset' = zset \ {e}
          /\ IF outcome = "getErr" \/ jobData[e.member] = NoJob
             THEN id = 0 /\ UNCHANGED deqOrder
             ELSE id = e.member /\ deqOrder' = Append(deqOrder, e.member)
  /\ UNCHANGED <<jobData, statusProj, now, enqOrder, anyExpired>>

\* a step that was no call of the queue specification
NoReturn == [op |-> "none"]

\* (mutation) Enqueue that logs a failed ZADD and returns nil
EnqueueReturnsNilAfterSet(outcome) ==
  IF outcome = "setErr" THEN "failed to store job data" ELSE Nil

\* the error Enqueue returns, Nil for nil
EnqueueReturns(outcome) ==
  IF outcome = "setErr" THEN "failed to store job data"
  ELSE IF outcome = "zaddErr" THEN "failed to add to queue"
  ELSE Nil

\* (mutation) Dequeue that treats redis.Nil like every other GET error
DequeueReturnsErrorOnMissing(set, data, outcome) ==
  IF outcome = "popErr" THEN "failed to dequeue"
  ELSE IF set = {} THEN Nil
  ELSE IF outcome = "getErr" \/ data[ZPopMin(set).member] = NoJob
       THEN "failed to get job data"
  ELSE Nil

\* the error Dequeue returns from queue set and payloads data, Nil for nil
DequeueReturns(set, data, outcome) ==
  IF outcome = "popErr" THEN "failed to dequeue"
  ELSE IF set = {} THEN Nil
  ELSE IF outcome = "getErr" THEN "failed to get job data"
  ELSE Nil

\* Dequeue by caller w, command by command.  (mutation) the first command
\* reads the lowest entry and leaves it in the sorted set
DequeuePopKeepingEntry(w, outcome) ==
  /\ dq[w] = 0
  /\ outcome \in {"ok", "popErr"}
  /\ IF outcome = "popErr" \/ zset = {}
     THEN /\ qret' = [op |-> "Dequeue", job |-> 0,
                      err |-> DequeueReturns(zset, jobData, outcome)]
          /\ UNCHANGED dq
     ELSE /\ dq' = [dq EXCEPT ![w] = ZPopMin(zset).member]
          /\ qret' = NoReturn
  /\ UNCHANGED <<zset, jobData, statusProj, now, enqOrder, deqOrder, anyExpired>>

\* lines 69-78: ZPOPMIN, one command; an error or an empty result returns
DequeuePop(w, outcome) ==
  /\ dq[w] = 0
  /\ outcome \in {"ok", "popErr"}
  /\ IF outcome = "popErr" \/ zset = {}
     THEN /\ qret' = [op |-> "Dequeue", job |-> 0,
                      err |-> DequeueReturns(zset, jobData, outcome)]
          /\ UNCHANGED <<zset, dq>>
     ELSE /\ zset' = zset \ {ZPopMin(zset)}
          /\ dq' = [dq EXCEPT ![w] = ZPopMin(zset).member]
          /\ qret' = NoReturn
  /\ UNCHANGED <<jobData, statusProj, now, enqOrder, deqOrder, anyExpired>>

\* lines 80-95: GET of the payload of the popped member, and the return
DequeueGet(w, outcome) ==
  /\ dq[w] # 0
  /\ outcome \in {"ok", "getErr"}
  /\ dq' = [dq EXCEPT ![w] = 0]
  /\ IF outcome = "getErr"
     THEN /\ qret' = [op |-> "Dequeue", job |-> 0, err |-> "failed to get job data"]
          /\ UNCHANGED deqOrder
     ELSE IF jobData[dq[w]] = NoJob
     THEN /\ qret' = [op |-> "Dequeue", job |-> 0, err |-> Nil]
          /\ UNCHANGED deqOrder
     ELSE /\ qret' = [op |-> "Dequeue", job |-> dq[w], err |-> Nil]
          /\ deqOrder' = Append(deqOrder, dq[w])
  /\ UNCHANGED <<zset, jobData, statusProj, now, enqOrder, anyExpired>>

\* GetQueuePosition: ZRANK, or -1 for a member that is not in the set
GetQueuePosition(id) ==
  IF \E e \in zset : e.member = id
  THEN Cardinality({e \in zset : ZLess(e, ZPopMin({f \in zset : f.member = id}))})
  ELSE -1

GetQueueDepth == Cardinality(zset)

\* UpdateJobStatus: SET of the status projection
UpdateJobStatus(proj, id, status, progress) ==
  [proj EXCEPT ![id] = [status |-> status, progress |-> progress]]

\* the payload key of id reaches its TTL
ExpirePayload(id) ==
  /\ jobData[id] # NoJob
  /\ jobData' = [jobData EXCEPT ![id] = NoJob]
  /\ anyExpired' = TRUE
  /\ UNCHANGED <<zset, statusProj, now, enqOrder, deqOrder>>

\* RemoveJob: ZREM, then DEL of the payload
RemoveJob(id) ==
  /\ zset' = ZRem(zset, id)
  /\ jobData' = [jobData EXCEPT ![id] = NoJob]
  /\ UNCHANGED <<statusProj, now, enqOrder, deqOrder, anyExpired>>

(***************************************************************************)
(* ProviderSelectorImpl.  A HealthCheck call returns (health, err); each   *)
(* call has its own outcome.  GetAll() ranges over a Go map, so the order  *)
(* of the providers is any permutation of the registry.                    *)
(***************************************************************************)
UserTierFree == "free"
UserTierPremium == "premium"
UserTierPro == "pro"

Resolution720p == "720p"
Resolution1080p == "1080p"
Resolution4K == "4k"

ErrProviderUnavailable == "AI provider unavailable"

HealthOutcomes ==
  {[health |-> "healthy", err |-> FALSE], [health |-> "unhealthy", err |-> FALSE],
   [health |-> "nil", err |-> TRUE], [health |-> "unhealthy", err |-> TRUE]}

\* the capabilities the providers declare
MockCapabilities ==
  [MaxDuration |-> 60, MaxResolution |-> Resolution1080p, EstimatedTime |-> 5,
   QualityTier |-> "standard"]

GeminiCapabilities ==
  [MaxDuration |-> 120, MaxResolution |-> Resolution4K, EstimatedTime |-> 30,
   QualityTier |-> "premium"]

WanAICapabilities ==
  [MaxDuration |-> 60, MaxResolution |-> Resolution4K, EstimatedTime |-> 20,
   QualityTier |-> "premium"]

SourceCapabilities ==
  [p \in Providers |->
     IF p = ProviderMock THEN MockCapabilities
     ELSE IF p = ProviderGeminiVEO THEN GeminiCapabilities
     ELSE WanAICapabilities]

resolutionOrder(r) ==
  IF r = Resolution720p THEN 1
  ELSE IF r = Resolution1080p THEN 2
  ELSE IF r = Resolution4K THEN 3
  ELSE 0

supportsResolution(max, required) ==
  resolutionOrder(max) >= resolutionOrder(required)

\* (mutation) scoreProvider without the 1000 of lines 372-374
scoreProviderWithoutPriority(p, userTier) ==
  (IF p = ProviderMock THEN -500 ELSE 0)
  + (IF caps[p].QualityTier = "premium"
       THEN (IF userTier # UserTierFree THEN 30 ELSE 0)
     ELSE IF caps[p].QualityTier = "standard" THEN 20
     ELSE IF caps[p].QualityTier = "budget" THEN 10
     ELSE 0)
  + (100 - caps[p].EstimatedTime)

scoreProvider(p, userTier) ==
  (IF p = ProviderWanAI THEN 1000 ELSE 0)
  + (IF p = ProviderMock THEN -500 ELSE 0)
  + (IF caps[p].QualityTier = "premium"
       THEN (IF userTier # UserTierFree THEN 30 ELSE 0)
     ELSE IF caps[p].QualityTier = "standard" THEN 20
     ELSE IF caps[p].QualityTier = "budget" THEN 10
     ELSE 0)
  + (100 - caps[p].EstimatedTime)

\* the loop of lines 265-311: the providers that are appended to eligible
Eligible(req, order, hg) ==
  LET Keep(p) ==
        /\ supportsResolution(caps[p].MaxResolution, req.RequiredResolution)
        /\ ~(caps[p].MaxDuration < req.RequiredDuration)
        /\ ~(/\ ~hg[p].err
             /\ hg[p].health = "unhealthy"
             /\ ~(req.PreferredProvider # Nil /\ p = req.PreferredProvider)
             /\ Len(order) > 1)
  IN SelectSeq(order, Keep)

\* the loop of lines 318-327 over eligible[1:], from best = eligible[0]
RECURSIVE BestOf(_, _, _, _)
BestOf(eligible, i, best, userTier) ==
  IF i > Len(eligible) THEN best
  ELSE BestOf(eligible, i + 1,
              IF scoreProvider(eligible[i], userTier) > scoreProvider(best, userTier)
              THEN eligible[i] ELSE best,
              userTier)

Selected(p) == [provider |-> p, err |-> Nil]

\* (mutation) return nil, nil
SelectFailedSilently == [provider |-> Nil, err |-> Nil]

SelectFailed == [provider |-> Nil, err |-> ErrProviderUnavailable]

\* SelectProvider(req), with hp the outcome of the preferred provider's
\* HealthCheck, order the order of GetAll() and hg the outcomes in the loop
SelectProvider(req, hp, order, hg) ==
  IF /\ req.PreferredProvider # Nil
     /\ req.PreferredProvider \in registry
     /\ \/ hp.health = "healthy"
        \/ hp.health = "nil"
        \/ hp.err
  THEN Selected(req.PreferredProvider)
  ELSE IF Len(order) = 0 THEN SelectFailed
  ELSE LET eligible == Eligible(req, order, hg) IN
       IF Len(eligible) = 0 THEN SelectFailed
       ELSE Selected(BestOf(eligible, 2, eligible[1], req.UserTier))

\* the orders in which GetAll() may return the registry
Orders(reg) ==
  {o \in [1..Cardinality(reg) -> reg] :
     \A i, k \in 1..Cardinality(reg) : i # k => o[i] # o[k]}

\* some outcome of SelectProvider(req)
SelectOutcomes(req) ==
  {SelectProvider(req, hp, order, hg) :
     hp \in HealthOutcomes, order \in Orders(registry),
     hg \in [Providers -> HealthOutcomes]}

(***************************************************************************)
(* The hub as the worker and the use case see it: BroadcastToJob(jobID,    *)
(* eventType, payload).  The calls are recorded per job.                   *)
(***************************************************************************)
BroadcastToJobCall(id, eventType, payload) ==
  /\ events' = [events EXCEPT ![id] = Append(@, eventType)]
  /\ lastEvent' = [lastEvent EXCEPT ![id] = [type |-> eventType] @@ payload]

(***************************************************************************)
(* What the providers answer.                                              *)
(***************************************************************************)
NoResult == [err |-> TRUE]

GenerateVideoResults ==
  {NoResult,
   \* a handle only
   [err |-> FALSE, ProviderJobID |-> "task", VideoURL |-> "", ThumbnailURL |-> "",
    Duration |-> 0],
   \* an immediate result, as MockProvider gives it
   [err |-> FALSE, ProviderJobID |-> "task", VideoURL |-> "cdn/videos/task.mp4",
    ThumbnailURL |-> "cdn/thumbnails/task.jpg", Duration |-> 15],
   \* an immediate result without thumbnail and duration
   [err |-> FALSE, ProviderJobID |-> "task", VideoURL |-> "cdn/videos/task.mp4",
    ThumbnailURL |-> "", Duration |-> 0]}

Percents == {10, 45, 80, 100}

GetProgressResults ==
  {NoResult}
  \cup {[err |-> FALSE, Percent |-> pc, Stage |-> "PROCESSING", Message |-> "progress"] :
          pc \in Percents}
  \cup {[err |-> FALSE, Percent |-> 45, Stage |-> "DIFFUSING_FRAMES",
         Message |-> "progress"],
        [err |-> FALSE, Percent |-> 80, Stage |-> "UPLOADING", Message |-> "progress"],
        [err |-> FALSE, Percent |-> 80, Stage |-> "COMPLETED", Message |-> "progress"],
        [err |-> FALSE, Percent |-> 100, Stage |-> "COMPLETED", Message |-> "progress"]}
  \cup {[err |-> FALSE, Percent |-> 45, Stage |-> "FAILED", Message |-> m] :
          m \in {"", "task failed"}}

SampleVideoURL == "gtv-videos-bucket/sample/BigBuckBunny.mp4"

\* completeJob's videoURL; got is what GetVideoURL returned ("" on error)
FinalVideoURL(job, got) ==
  IF job.provider = ProviderWanAI
  THEN (IF got = "" THEN "dashscope://task/" \o job.providerJobID ELSE got)
  ELSE SampleVideoURL

(***************************************************************************)
(* VideoUseCase.GenerateVideo (intake) for user u with a fresh job id.     *)
(***************************************************************************)
JobCosts == {1, 2}
JobDurations == {DefaultDuration}

\* UserRepositoryPostgres.UpdateCredits: the UPDATE applies only if the
\* balance stays >= 0
UpdateCreditsApplies(u, delta) == credits[u] + delta >= 0

UpdateCredits(u, delta) ==
  IF UpdateCreditsApplies(u, delta) THEN [credits EXCEPT ![u] = @ + delta]
  ELSE credits

IntakeOutcomes == {"ok", "createErr", "setErr", "zaddErr"}

UCGenerateVideo(u, id, duration, cost, outcome) ==
  LET job == NewVideoJob(u, duration, cost) IN
  /\ jobs[id] = NoJob
  /\ credits[u] >= cost
  /\ UpdateCreditsApplies(u, -cost)
  /\ outcome # "ok" => CanFail
  /\ dbErrs' = IF outcome = "ok" THEN dbErrs ELSE dbErrs + 1
  /\ IF outcome = "createErr"
     THEN \* credits are debited and refunded
          UNCHANGED <<jobs, credits, qvars>>
     ELSE /\ credits' = UpdateCredits(u, -cost)
          /\ Enqueue(id, job, MinClockStep, outcome)
          /\ jobs' = [jobs EXCEPT ![id] =
                        IF outcome = "ok" THEN job
                        ELSE Fail(job, "Failed to enqueue job")]
  /\ UNCHANGED <<wvars, evars, cvars, svars, tickCap, plan, gvars, stvars, qret, dq>>

(***************************************************************************)
(* VideoWorker.  processNextJob dequeues and starts a processJob goroutine *)
(* for the job; the goroutine is at "start", "select", "generate", "poll", *)
(* "complete" (before completeJob), "fail" (before failJob) or "done".     *)
(***************************************************************************)
\* (mutation) processNextJob that calls processJob itself, so that run's
\* next tick waits for the job
processNextJobInline(id, outcome) ==
  /\ \A j \in DOMAIN wpc : wpc[j] \in {"none", "done"}
  /\ outcome # "ok" => CanFail
  /\ dbErrs' = IF outcome = "ok" THEN dbErrs ELSE dbErrs + 1
  /\ Dequeue(id, outcome)
  /\ IF id = 0 THEN UNCHANGED <<wpc, wjob>>
     ELSE /\ wpc' = [wpc EXCEPT ![id] = "start"]
          /\ wjob' = [wjob EXCEPT ![id] = jobData[id]]
  /\ UNCHANGED <<jobs, credits, attempts, consecutiveErrors, wprov, wmsg, errRun, progressCalls,
                 evars, cvars, svars, tickCap, plan, gvars, stvars, qret, dq>>

processNextJob(id, outcome) ==
  /\ outcome # "ok" => CanFail
  /\ dbErrs' = IF outcome = "ok" THEN dbErrs ELSE dbErrs + 1
  /\ Dequeue(id, outcome)
  /\ IF id = 0 THEN UNCHANGED <<wpc, wjob>>
     ELSE /\ wpc' = [wpc EXCEPT ![id] = "start"]
          /\ wjob' = [wjob EXCEPT ![id] = jobData[id]]
  /\ UNCHANGED <<jobs, credits, attempts, consecutiveErrors, wprov, wmsg, errRun, progressCalls,
                 evars, cvars, svars, tickCap, plan, gvars, stvars, qret, dq>>

\* jobRepo.Update(job), UpdateJobStatus and BroadcastToJob of one transition
\* whose Update succeeded
Published(id, job, eventType, payload) ==
  /\ jobs' = [jobs EXCEPT ![id] = UpdatedRow(@, job)]
  /\ statusProj' = UpdateJobStatus(statusProj, id, job.status, job.progress)
  /\ BroadcastToJobCall(id, eventType, payload)

\* (mutation) a failJob after which processJob goes on to pollForCompletion
failJobThenPoll(id, job, errorMsg, ok, extra) ==
  LET failed == Fail(job, errorMsg) IN
  /\ wjob' = [wjob EXCEPT ![id] = failed]
  /\ wpc' = [wpc EXCEPT ![id] = "poll"]
  /\ dbErrs + extra + (IF ok THEN 0 ELSE 1) <= MaxDbErrors
  /\ dbErrs' = dbErrs + extra + (IF ok THEN 0 ELSE 1)
  /\ IF ok
     THEN Published(id, failed, "failed",
                    [status |-> failed.status, error_message |-> errorMsg])
     ELSE UNCHANGED <<jobs, statusProj, events, lastEvent>>

\* (mutation) a failJob that broadcasts its event twice
failJobBroadcastingTwice(id, job, errorMsg, ok, extra) ==
  LET failed == Fail(job, errorMsg) IN
  /\ wjob' = [wjob EXCEPT ![id] = failed]
  /\ wpc' = [wpc EXCEPT ![id] = "done"]
  /\ dbErrs + extra + (IF ok THEN 0 ELSE 1) <= MaxDbErrors
  /\ dbErrs' = dbErrs + extra + (IF ok THEN 0 ELSE 1)
  /\ IF ok
     THEN /\ jobs' = [jobs EXCEPT ![id] = UpdatedRow(@, failed)]
          /\ statusProj' = UpdateJobStatus(statusProj, id, failed.status, failed.progress)
          /\ events' = [events EXCEPT ![id] = Append(Append(@, "failed"), "failed")]
          /\ lastEvent' = [lastEvent EXCEPT ![id] =
                             [type |-> "failed", status |-> failed.status,
                              error_message |-> errorMsg]]
     ELSE UNCHANGED <<jobs, statusProj, events, lastEvent>>

\* failJob(job, errorMsg); ok: jobRepo.Update succeeded.  extra counts the
\* storage calls that failed before it in the same step.
failJob(id, job, errorMsg, ok, extra) ==
  LET failed == Fail(job, errorMsg) IN
  /\ wjob' = [wjob EXCEPT ![id] = failed]
  /\ wpc' = [wpc EXCEPT ![id] = "done"]
  /\ dbErrs + extra + (IF ok THEN 0 ELSE 1) <= MaxDbErrors
  /\ dbErrs' = dbErrs + extra + (IF ok THEN 0 ELSE 1)
  /\ IF ok
     THEN Published(id, failed, "failed",
                    [status |-> failed.status, error_message |-> errorMsg])
     ELSE UNCHANGED <<jobs, statusProj, events, lastEvent>>

\* (mutation) a failJob that gives the charge back
CreditsRefundedOnFailure(id) ==
  IF wjob'[id].status = JobStatusFailed /\ wjob[id].status # JobStatusFailed
  THEN UpdateCredits(wjob[id].userID, wjob[id].creditsCharged)
  ELSE credits

\* the balances after a step of processJob for job id: the worker reads the
\* user (for the tier) and never writes a balance, in failJob or elsewhere
CreditsAfterProcessJob(id) == credits

\* processJob, lines 116-127
StartJob(id, ok) ==
  LET job == StartProcessing(wjob[id], ProviderWanAI) IN
  /\ wpc[id] = "start"
  /\ ~ok => CanFail
  /\ wjob' = [wjob EXCEPT ![id] = job]
  /\ IF ok
     THEN /\ Published(id, job, "status_update",
                       [status |-> job.status, progress |-> job.progress])
          /\ wpc' = [wpc EXCEPT ![id] = "select"]
          /\ UNCHANGED dbErrs
     ELSE /\ wpc' = [wpc EXCEPT ![id] = "done"]
          /\ dbErrs' = dbErrs + 1
          /\ UNCHANGED <<jobs, statusProj, events, lastEvent>>
  /\ credits' = CreditsAfterProcessJob(id)
  /\ UNCHANGED <<zset, jobData, now, enqOrder, deqOrder, anyExpired,
                 attempts, consecutiveErrors, wprov, wmsg, errRun, progressCalls, cvars, svars,
                 tickCap, plan, gvars, stvars, qret, dq>>

\* the request processJob builds, lines 144-153
WorkerSelectionRequest(job) ==
  [UserTier |-> UserTierFree, PreferredProvider |-> ProviderWanAI,
   RequiredResolution |-> Resolution1080p, RequiredDuration |-> job.duration]

\* processJob, lines 129-170; read: outcome of the template and user reads
SelectForJob(id, read, ok) ==
  /\ wpc[id] = "select"
  /\ read \in {"ok", "templateErr", "userErr"}
  /\ \E sel \in SelectOutcomes(WorkerSelectionRequest(wjob[id])) :
     IF read = "templateErr"
        THEN /\ failJob(id, wjob[id], "Failed to get template", ok, 1)
             /\ UNCHANGED wprov
        ELSE IF read = "userErr"
        THEN /\ failJob(id, wjob[id], "Failed to get user", ok, 1)
             /\ UNCHANGED wprov
        ELSE IF sel.err # Nil
        THEN /\ failJob(id, wjob[id], "Failed to select provider: " \o sel.err, ok, 0)
             /\ UNCHANGED wprov
        ELSE LET job == [wjob[id] EXCEPT !.provider = sel.provider] IN
             /\ ~ok => CanFail
             /\ dbErrs' = IF ok THEN dbErrs ELSE dbErrs + 1
             /\ wjob' = [wjob EXCEPT ![id] = job]
             /\ wprov' = [wprov EXCEPT ![id] = sel.provider]
             /\ jobs' = IF ok THEN [jobs EXCEPT ![id] = UpdatedRow(@, job)] ELSE jobs
             /\ wpc' = [wpc EXCEPT ![id] = "generate"]
             /\ UNCHANGED <<statusProj, events, lastEvent>>
  /\ credits' = CreditsAfterProcessJob(id)
  /\ UNCHANGED <<zset, jobData, now, enqOrder, deqOrder, anyExpired,
                 attempts, consecutiveErrors, wmsg, errRun, progressCalls, cvars, svars,
                 tickCap, plan, gvars, stvars, qret, dq>>

\* the duration processJob records for an immediate result, lines 210-216
ImmediateDuration(job, result) ==
  IF result.Duration # 0 THEN result.Duration
  ELSE IF job.duration # 0 THEN job.duration
  ELSE DefaultDuration

ProviderErrorText == "provider error"

\* fmt.Sprintf("Video generation failed: %v", err)
GenerationErrorMessage == "Video generation failed: " \o ProviderErrorText

\* processJob, lines 172-245
GenerateForJob(id, result, ok) ==
  /\ wpc[id] = "generate"
  /\ result \in GenerateVideoResults
  /\ IF result.err
     THEN /\ failJob(id, wjob[id], GenerationErrorMessage, ok, 0)
          /\ UNCHANGED <<attempts, consecutiveErrors>>
     ELSE LET bound == SetProviderJobID(wjob[id], result.ProviderJobID) IN
          /\ ~ok => CanFail
          /\ dbErrs' = IF ok THEN dbErrs ELSE dbErrs + 1
          /\ IF result.VideoURL # ""
             THEN LET job == Complete(bound, result.VideoURL, result.ThumbnailURL,
                                      ImmediateDuration(bound, result)) IN
                  /\ wjob' = [wjob EXCEPT ![id] = job]
                  /\ wpc' = [wpc EXCEPT ![id] = "done"]
                  /\ IF ok
                     THEN Published(id, job, "completed",
                                    [status |-> job.status, progress |-> job.progress,
                                     video_url |-> job.videoURL,
                                     thumbnail_url |-> job.thumbnailURL])
                     ELSE UNCHANGED <<jobs, statusProj, events, lastEvent>>
                  /\ UNCHANGED <<attempts, consecutiveErrors>>
             ELSE /\ wjob' = [wjob EXCEPT ![id] = bound]
                  /\ jobs' = IF ok THEN [jobs EXCEPT ![id] = UpdatedRow(@, bound)]
                             ELSE jobs
                  /\ wpc' = [wpc EXCEPT ![id] = "poll"]
                  /\ attempts' = [attempts EXCEPT ![id] = 0]
                  /\ consecutiveErrors' = [consecutiveErrors EXCEPT ![id] = 0]
                  /\ UNCHANGED <<statusProj, events, lastEvent>>
  /\ credits' = CreditsAfterProcessJob(id)
  /\ UNCHANGED <<zset, jobData, now, enqOrder, deqOrder, anyExpired,
                 wprov, wmsg, errRun, progressCalls, cvars, svars, tickCap,
                 plan, gvars, stvars, qret, dq>>

\* (mutation) the threshold test with > for >=
ReachedMaxErrorsStrictly(n) == n > maxConsecutiveErrors

\* (mutation) the threshold met by the first error
ReachedMaxErrorsAtOnce(n) == n >= 1

\* lines 275 and 291: consecutiveErrors >= maxConsecutiveErrors
ReachedMaxErrors(n) == n >= maxConsecutiveErrors


\* fmt.Sprintf("Failed to get progress after %d attempts: %v", n, err)
PollErrorMessage(n) ==
  "Failed to get progress after " \o ToString(n) \o " attempts: " \o ProviderErrorText

\* The provider's answers to the GetProgress calls of a job: the n-th tick
\* of its polling loop gets one of script[n], a tick after the script one of
\* rest.
FreePlan == [script |-> <<>>, rest |-> GetProgressResults]

PlannedAnswers(n) ==
  IF n <= Len(plan.script) THEN plan.script[n] ELSE plan.rest

\* line 266
TimeoutMessage == "Video generation timeout after 30 minutes"

\* (mutation) the test of line 265 one tick later
TimedOutLate(n) == n > maxAttempts + 1

\* line 265: attempts > maxAttempts
TimedOut(n) == n > maxAttempts

\* one tick of pollForCompletion, lines 263-329
PollTick(id, progress, ok) ==
  /\ wpc[id] = "poll"
  /\ attempts[id] < tickCap
  /\ progress \in PlannedAnswers(attempts[id] + 1)
  /\ attempts' = [attempts EXCEPT ![id] = @ + 1]
  /\ progressCalls' = [progressCalls EXCEPT ![id] =
                 IF TimedOut(attempts'[id]) \/ wjob[id].providerJobID = Nil THEN @
                 ELSE @ + 1]
  /\ IF TimedOut(attempts'[id])
     THEN /\ failJob(id, wjob[id], TimeoutMessage, ok, 0)
          /\ UNCHANGED <<consecutiveErrors, wmsg, errRun>>
     ELSE IF wjob[id].providerJobID = Nil
     THEN /\ consecutiveErrors' = [consecutiveErrors EXCEPT ![id] = @ + 1]
          /\ IF ReachedMaxErrors(consecutiveErrors'[id])
             THEN failJob(id, wjob[id], "No provider job ID after multiple attempts",
                          ok, 0)
             ELSE /\ ok
                  /\ UNCHANGED <<jobs, statusProj, events, lastEvent, wjob, wpc, dbErrs>>
          /\ UNCHANGED <<wmsg, errRun>>
     ELSE IF progress.err
     THEN /\ consecutiveErrors' = [consecutiveErrors EXCEPT ![id] = @ + 1]
          /\ errRun' = [errRun EXCEPT ![id] = @ + 1]
          /\ IF ReachedMaxErrors(consecutiveErrors'[id])
             THEN failJob(id, wjob[id], PollErrorMessage(consecutiveErrors'[id]), ok, 0)
             ELSE /\ ok
                  /\ UNCHANGED <<jobs, statusProj, events, lastEvent, wjob, wpc, dbErrs>>
          /\ UNCHANGED wmsg
     ELSE LET job == UpdateProgress(wjob[id], progress.Percent, progress.Stage) IN
          /\ ~ok => CanFail
          /\ dbErrs' = IF ok THEN dbErrs ELSE dbErrs + 1
          /\ consecutiveErrors' = [consecutiveErrors EXCEPT ![id] = 0]
          /\ errRun' = [errRun EXCEPT ![id] = 0]
          /\ wjob' = [wjob EXCEPT ![id] = job]
          /\ jobs' = IF ok THEN [jobs EXCEPT ![id] = UpdatedRow(@, job)] ELSE jobs
          /\ statusProj' = UpdateJobStatus(statusProj, id, job.status, job.progress)
          /\ BroadcastToJobCall(id, "progress_update",
                                [status |-> job.status, progress |-> job.progress,
                                 message |-> progress.Message])
          /\ wpc' = [wpc EXCEPT ![id] =
                       IF progress.Stage = "COMPLETED" THEN "complete"
                       ELSE IF progress.Stage = "FAILED" THEN "fail"
                       ELSE "poll"]
          /\ wmsg' = [wmsg EXCEPT ![id] =
                        IF progress.Stage = "FAILED" THEN progress.Message ELSE @]
  /\ credits' = CreditsAfterProcessJob(id)
  /\ UNCHANGED <<zset, jobData, now, enqOrder, deqOrder, anyExpired,
                 wprov, cvars, svars, tickCap, plan, gvars, stvars, qret, dq>>

GetVideoURLResults == {"", "dashscope/result.mp4"}

\* completeJob, lines 334-411; got: what GetVideoURL gave ("" on error)
completeJob(id, got, ok) ==
  /\ wpc[id] = "complete"
  /\ got \in GetVideoURLResults
  /\ IF wjob[id].providerJobID = Nil
     THEN failJob(id, wjob[id], "No provider job ID available", ok, 0)
     ELSE LET job == Complete(wjob[id], FinalVideoURL(wjob[id], got), "",
                              IF wjob[id].duration = 0 THEN DefaultDuration
                              ELSE wjob[id].duration) IN
          /\ ~ok => CanFail
          /\ dbErrs' = IF ok THEN dbErrs ELSE dbErrs + 1
          /\ wjob' = [wjob EXCEPT ![id] = job]
          /\ wpc' = [wpc EXCEPT ![id] = "done"]
          /\ IF ok
             THEN Published(id, job, "completed",
                            [status |-> job.status, progress |-> job.progress,
                             video_url |-> job.videoURL,
                             thumbnail_url |-> job.thumbnailURL])
             ELSE UNCHANGED <<jobs, statusProj, events, lastEvent>>
  /\ credits' = CreditsAfterProcessJob(id)
  /\ UNCHANGED <<zset, jobData, now, enqOrder, deqOrder, anyExpired,
                 attempts, consecutiveErrors, wprov, wmsg, errRun, progressCalls, cvars, svars,
                 tickCap, plan, gvars, stvars, qret, dq>>

\* failJob(job, progress.Message) after a poll that reported FAILED
FailPolledJob(id, ok) ==
  /\ wpc[id] = "fail"
  /\ failJob(id, wjob[id], wmsg[id], ok, 0)
  /\ credits' = CreditsAfterProcessJob(id)
  /\ UNCHANGED <<zset, jobData, now, enqOrder, deqOrder, anyExpired,
                 attempts, consecutiveErrors, wprov, wmsg, errRun, progressCalls, cvars, svars,
                 tickCap, plan, gvars, stvars, qret, dq>>

(***************************************************************************)
(* Shutdown.  run and pollForCompletion sit in a select over stopChan,     *)
(* ctx.Done() and their ticker; a closed stopChan and a cancelled context  *)
(* are ready in every select from then on.                                 *)
(***************************************************************************)
\* (mutation) a select without the case <-ctx.Done()
SignalledByStopOnly == stopClosed

\* the shutdown signal: a case of the selects other than the ticker is ready
Signalled == stopClosed \/ ctxCancelled

\* VideoWorker.Stop: close(w.stopChan)
Stop ==
  /\ ~stopClosed
  /\ stopClosed' = TRUE
  /\ UNCHANGED <<ctxCancelled, runpc>>
  /\ UNCHANGED <<jobs, credits, qvars, wvars, evars, cvars, svars, dbErrs, tickCap,
                 plan, gvars, qret, dq, hvars>>

\* the caller of Start cancels its context
CancelContext ==
  /\ ~ctxCancelled
  /\ ctxCancelled' = TRUE
  /\ UNCHANGED <<stopClosed, runpc>>
  /\ UNCHANGED <<jobs, credits, qvars, wvars, evars, cvars, svars, dbErrs, tickCap,
                 plan, gvars, qret, dq, hvars>>

\* run's select takes <-w.stopChan or <-ctx.Done(): return
runReturns ==
  /\ runpc = "running"
  /\ Signalled
  /\ runpc' = "stopped"
  /\ UNCHANGED <<stopClosed, ctxCancelled>>
  /\ UNCHANGED <<jobs, credits, qvars, wvars, evars, cvars, svars, dbErrs, tickCap,
                 plan, gvars, qret, dq, hvars>>

\* pollForCompletion's select takes <-ctx.Done() or <-w.stopChan: return
pollForCompletionReturns(id) ==
  /\ wpc[id] = "poll"
  /\ Signalled
  /\ wpc' = [wpc EXCEPT ![id] = "stopped"]
  /\ UNCHANGED <<wjob, attempts, consecutiveErrors, wprov, wmsg, errRun, progressCalls>>
  /\ UNCHANGED <<jobs, credits, qvars, evars, cvars, svars, dbErrs, tickCap, plan,
                 gvars, stvars, qret, dq, hvars>>

(***************************************************************************)
(* VideoUseCase.CancelJob(userID, jobID) by caller c: GetByID and the      *)
(* checks, then Update of the cancelled copy, then the refund and the      *)
(* broadcast.  Other requests and the worker run between the steps.        *)
(***************************************************************************)
ErrJobNotFound == "video job not found"
ErrUnauthorized == "unauthorized"
ErrJobCannotBeCancelled == "video job cannot be cancelled"

\* the outcome of lines 239-252 on the row GetByID returned
CancelCheck(row, u) ==
  IF row = NoJob THEN ErrJobNotFound
  ELSE IF row.userID # u THEN ErrUnauthorized
  ELSE IF ~CanBeCancelled(row) THEN ErrJobCannotBeCancelled
  ELSE "proceed"

NoCall == [user |-> "u1", job |-> 1]
Returned(c, u, id, read, result) ==
  [caller |-> c, user |-> u, job |-> id, read |-> read, result |-> result]

CancelJobRead(c, u, id) ==
  /\ cpc[c] = "idle"
  /\ cancelCalls < MaxCancelCalls
  /\ cancelCalls' = cancelCalls + 1
  /\ IF CancelCheck(jobs[id], u) = "proceed"
     THEN /\ cpc' = [cpc EXCEPT ![c] = "write"]
          /\ ctarget' = [ctarget EXCEPT ![c] = [user |-> u, job |-> id]]
          /\ cjob' = [cjob EXCEPT ![c] = jobs[id]]
          /\ UNCHANGED cres
     ELSE /\ cres' = Returned(c, u, id,
                              IF jobs[id] = NoJob THEN Nil ELSE jobs[id].status,
                              CancelCheck(jobs[id], u))
          /\ UNCHANGED <<cpc, ctarget, cjob>>
  /\ UNCHANGED <<jobs, credits, qvars, wvars, evars, svars, dbErrs, tickCap,
                 plan, gvars, stvars, qret, dq>>

CancelJobWrite(c, ok) ==
  /\ cpc[c] = "write"
  /\ ~ok => CanFail
  /\ IF ok
     THEN /\ jobs' = [jobs EXCEPT ![ctarget[c].job] = UpdatedRow(@, Cancel(cjob[c]))]
          /\ cpc' = [cpc EXCEPT ![c] = "refund"]
          /\ UNCHANGED <<cres, cjob, ctarget, dbErrs>>
     ELSE /\ cpc' = [cpc EXCEPT ![c] = "idle"]
          /\ cres' = Returned(c, ctarget[c].user, ctarget[c].job, cjob[c].status,
                              "update failed")
          /\ cjob' = [cjob EXCEPT ![c] = NoJob]
          /\ ctarget' = [ctarget EXCEPT ![c] = NoCall]
          /\ dbErrs' = dbErrs + 1
          /\ UNCHANGED jobs
  /\ UNCHANGED <<credits, qvars, wvars, evars, cancelCalls, svars, tickCap,
                 plan, gvars, stvars, qret, dq>>

\* the credits CancelJob gives back
RefundAmount(job) == job.creditsCharged

\* lines 263-269; ok: the UPDATE of the balance succeeded (its error is dropped)
CancelJobRefund(c, ok) ==
  /\ cpc[c] = "refund"
  /\ ~ok => CanFail
  /\ dbErrs' = IF ok THEN dbErrs ELSE dbErrs + 1
  /\ credits' = IF ok THEN UpdateCredits(ctarget[c].user, RefundAmount(cjob[c]))
                ELSE credits
  /\ BroadcastToJobCall(ctarget[c].job, "cancelled", [status |-> JobStatusCancelled])
  /\ cpc' = [cpc EXCEPT ![c] = "idle"]
  /\ cres' = Returned(c, ctarget[c].user, ctarget[c].job, cjob[c].status, "ok")
  /\ cjob' = [cjob EXCEPT ![c] = NoJob]
  /\ ctarget' = [ctarget EXCEPT ![c] = NoCall]
  /\ UNCHANGED <<jobs, qvars, wvars, cancelCalls, svars, tickCap, plan, gvars, stvars, qret, dq>>

(***************************************************************************)
(* VideoUseCase.GenerateVideo as request r, step by step: GetByID and the  *)
(* checks on the user it returned, the conditional UPDATE of the balance   *)
(* (and, when it changed no row, UpdateCredits' second read), then Create  *)
(* and Enqueue.  The request creates job id r.  Other requests and         *)
(* CancelJob calls run between the steps.                                  *)
(***************************************************************************)
ErrInsufficientCredits == "insufficient credits"
ErrUserNotFound == "user not found"

NoRequest == [user |-> "u1", cost |-> 0]

\* lines 89-111: the user is read and HasSufficientCredits is tested on it
GenerateVideoRead(r, u, cost) ==
  /\ gpc[r] = "idle"
  /\ gres[r] = Nil
  /\ greq' = [greq EXCEPT ![r] = [user |-> u, cost |-> cost]]
  /\ IF credits[u] >= cost
     THEN /\ gpc' = [gpc EXCEPT ![r] = "debit"]
          /\ UNCHANGED gres
     ELSE /\ gpc' = [gpc EXCEPT ![r] = "done"]
          /\ gres' = [gres EXCEPT ![r] = ErrInsufficientCredits]
  /\ UNCHANGED <<jobs, credits, qvars, wvars, evars, cvars, svars, dbErrs, tickCap,
                 plan, stvars, qret, dq>>

\* line 140 and UpdateCredits' UPDATE ... WHERE credits + $2 >= 0
GenerateVideoDebit(r) ==
  /\ gpc[r] = "debit"
  /\ credits' = UpdateCredits(greq[r].user, -greq[r].cost)
  /\ gpc' = [gpc EXCEPT ![r] =
               IF UpdateCreditsApplies(greq[r].user, -greq[r].cost) THEN "create"
               ELSE "reread"]
  /\ UNCHANGED <<jobs, qvars, wvars, evars, cvars, svars, dbErrs, tickCap, plan,
                 greq, gres, stvars, qret, dq>>

\* UpdateCredits after RowsAffected() == 0: GetByID, then
\* ErrInsufficientCredits if user.Credits+delta < 0, else ErrUserNotFound
GenerateVideoReread(r) ==
  /\ gpc[r] = "reread"
  /\ gpc' = [gpc EXCEPT ![r] = "done"]
  /\ gres' = [gres EXCEPT ![r] =
                IF credits[greq[r].user] - greq[r].cost < 0 THEN ErrInsufficientCredits
                ELSE ErrUserNotFound]
  /\ UNCHANGED <<jobs, credits, qvars, wvars, evars, cvars, svars, dbErrs, tickCap,
                 plan, greq, stvars, qret, dq>>

\* lines 145-177: Create (with the refund when it fails), Enqueue (with the
\* failed row when it fails)
GenerateVideoCreate(r, outcome) ==
  LET u == greq[r].user
      job == NewVideoJob(u, DefaultDuration, greq[r].cost) IN
  /\ gpc[r] = "create"
  /\ outcome \in IntakeOutcomes
  /\ outcome # "ok" => CanFail
  /\ dbErrs' = IF outcome = "ok" THEN dbErrs ELSE dbErrs + 1
  /\ gpc' = [gpc EXCEPT ![r] = "done"]
  /\ gres' = [gres EXCEPT ![r] = IF outcome = "ok" THEN "ok" ELSE outcome]
  /\ IF outcome = "createErr"
     THEN /\ credits' = UpdateCredits(u, greq[r].cost)
          /\ UNCHANGED <<jobs, qvars>>
     ELSE /\ Enqueue(r, job, MinClockStep, outcome)
          /\ jobs' = [jobs EXCEPT ![r] =
                        IF outcome = "ok" THEN job
                        ELSE Fail(job, "Failed to enqueue job")]
          /\ UNCHANGED credits
  /\ UNCHANGED <<wvars, evars, cvars, svars, tickCap, plan, greq, stvars, qret, dq>>


(***************************************************************************)
(* The WebSocket hub and the connections' goroutines.                      *)
(*                                                                         *)
(* Hub.mu: registerClient, unregisterClient and SubscribeToJob run under   *)
(* Lock as one step each, enabled while no reader holds the mutex;         *)
(* BroadcastToJob holds RLock from its first to its last step.  register   *)
(* and unregister are unbuffered channels: a send completes when Hub.Run,  *)
(* at its select, takes it.  Of a client's Send channel the model keeps    *)
(* the number of buffered messages and whether it was closed.              *)
(***************************************************************************)
Clients == {"k1", "k2"}
HubJobs == {"A", "B"}

\* the users a connection of client c may authenticate as
ConnectUsers(c) == IF c = "k1" THEN {"u1"} ELSE Users

NoBroadcast == [absent |-> TRUE]
NoResub == [absent |-> TRUE]
Selecting == [op |-> "select"]

\* Hub.mu is free for Lock
LockFree == bcast = NoBroadcast
\* Hub.mu is free for RLock: no writer holds it or waits for it
RLockFree == hubRun = Selecting

Without(index, key, c) == [index EXCEPT ![key] = @ \ {c}]
With(index, key, c) == [index EXCEPT ![key] = @ \cup {c}]

HubUnchanged(except) ==
  /\ IF "clients" \in except THEN TRUE ELSE UNCHANGED clients
  /\ IF "userClients" \in except THEN TRUE ELSE UNCHANGED userClients
  /\ IF "jobClients" \in except THEN TRUE ELSE UNCHANGED jobClients
  /\ IF "clientUserID" \in except THEN TRUE ELSE UNCHANGED clientUserID
  /\ IF "clientJobID" \in except THEN TRUE ELSE UNCHANGED clientJobID
  /\ IF "Send" \in except THEN TRUE ELSE UNCHANGED Send
  /\ IF "sendClosed" \in except THEN TRUE ELSE UNCHANGED sendClosed
  /\ IF "rpc" \in except THEN TRUE ELSE UNCHANGED rpc
  /\ IF "hubRun" \in except THEN TRUE ELSE UNCHANGED hubRun
  /\ IF "bcast" \in except THEN TRUE ELSE UNCHANGED bcast
  /\ IF "broadcasts" \in except THEN TRUE ELSE UNCHANGED broadcasts
  /\ IF "panicked" \in except THEN TRUE ELSE UNCHANGED panicked
  /\ IF "resub" \in except THEN TRUE ELSE UNCHANGED resub

\* HandleConnection (job = Nil) and HandleJobConnection up to the send on
\* register, which blocks
HandleJobConnection(c, u, job) ==
  /\ ~panicked
  /\ rpc[c] = "none"
  /\ clientUserID' = [clientUserID EXCEPT ![c] = u]
  /\ clientJobID' = [clientJobID EXCEPT ![c] = job]
  /\ rpc' = [rpc EXCEPT ![c] = "registering"]
  /\ HubUnchanged({"clientUserID", "clientJobID", "rpc"})

\* Hub.Run takes a client from register; the handler goes on to start
\* writePump and readPump
RunTakesRegister(c) ==
  /\ ~panicked
  /\ hubRun = Selecting
  /\ rpc[c] = "registering"
  /\ hubRun' = [op |-> "register", client |-> c]
  /\ rpc' = [rpc EXCEPT ![c] = "reading"]
  /\ HubUnchanged({"hubRun", "rpc"})

registerClient(c) ==
  /\ ~panicked
  /\ hubRun = [op |-> "register", client |-> c]
  /\ LockFree
  /\ clients' = clients \cup {c}
  /\ userClients' = With(userClients, clientUserID[c], c)
  /\ jobClients' = IF clientJobID[c] # Nil THEN With(jobClients, clientJobID[c], c)
                   ELSE jobClients
  /\ hubRun' = Selecting
  /\ HubUnchanged({"clients", "userClients", "jobClients", "hubRun"})

\* readPump leaves its loop (the connection failed or was closed) and its
\* deferred function sends on unregister, which blocks
readPumpExit(c) ==
  /\ ~panicked
  /\ rpc[c] = "reading"
  /\ rpc' = [rpc EXCEPT ![c] = "leaving"]
  /\ HubUnchanged({"rpc"})

\* Hub.Run takes readPump's client from unregister
RunTakesUnregister(c) ==
  /\ ~panicked
  /\ hubRun = Selecting
  /\ rpc[c] = "leaving"
  /\ hubRun' = [op |-> "unregister", client |-> c]
  /\ rpc' = [rpc EXCEPT ![c] = "gone"]
  /\ HubUnchanged({"hubRun", "rpc"})

unregisterClient(c) ==
  /\ ~panicked
  /\ hubRun = [op |-> "unregister", client |-> c]
  /\ LockFree
  /\ IF c \in clients
     THEN /\ clients' = clients \ {c}
          /\ sendClosed' = [sendClosed EXCEPT ![c] = TRUE]
          /\ userClients' = Without(userClients, clientUserID[c], c)
          /\ jobClients' = IF clientJobID[c] # Nil
                           THEN Without(jobClients, clientJobID[c], c)
                           ELSE jobClients
     ELSE UNCHANGED <<clients, sendClosed, userClients, jobClients>>
  /\ hubRun' = Selecting
  /\ HubUnchanged({"clients", "sendClosed", "userClients", "jobClients", "hubRun"})

\* SubscribeToJob leaving the client in its former job's index
SubscribeToJobKeepingFormer(c, job) ==
  /\ clientJobID' = [clientJobID EXCEPT ![c] = job]
  /\ jobClients' = With(jobClients, job, c)

\* Hub.SubscribeToJob(client, jobID)
SubscribeToJob(c, job) ==
  /\ clientJobID' = [clientJobID EXCEPT ![c] = job]
  /\ jobClients' = With(IF clientJobID[c] # Nil
                        THEN Without(jobClients, clientJobID[c], c)
                        ELSE jobClients,
                        job, c)

\* handleMessage, "subscribe_job", up to the send of the confirmation
handleSubscribeJob(c, job) ==
  /\ ~panicked
  /\ rpc[c] = "reading"
  /\ LockFree
  /\ SubscribeToJob(c, job)
  /\ resub' = [resub EXCEPT ![c] = [from |-> clientJobID[c], to |-> job]]
  /\ rpc' = [rpc EXCEPT ![c] = "confirming"]
  /\ HubUnchanged({"clientJobID", "jobClients", "resub", "rpc"})

\* handleMessage, "ping", up to the send of the pong
handlePing(c) ==
  /\ ~panicked
  /\ rpc[c] = "reading"
  /\ rpc' = [rpc EXCEPT ![c] = "confirming"]
  /\ HubUnchanged({"rpc"})

\* handleMessage's client.Send <- response: blocks while the buffer is
\* full, panics on a closed channel
sendConfirmation(c) ==
  /\ ~panicked
  /\ rpc[c] = "confirming"
  /\ IF sendClosed[c]
     THEN /\ panicked' = TRUE
          /\ UNCHANGED <<Send, rpc>>
     ELSE /\ Send[c] < MaxBuffer
          /\ Send' = [Send EXCEPT ![c] = @ + 1]
          /\ rpc' = [rpc EXCEPT ![c] = "reading"]
          /\ UNCHANGED panicked
  /\ HubUnchanged({"Send", "rpc", "panicked"})

\* writePump takes everything that is buffered in client.Send
writePump(c) ==
  /\ ~panicked
  /\ rpc[c] \notin {"none", "registering"}
  /\ Send[c] > 0
  /\ Send' = [Send EXCEPT ![c] = 0]
  /\ HubUnchanged({"Send"})

\* BroadcastToJob(jobID, ...): RLock and the lookup of jobClients[jobID].
\* The call's record keeps the clients still to visit (todo), those whose
\* Send took the message (sent), those found full (full) and the one the
\* call is handing to unregister (blocked).
BroadcastToJobStart(job) ==
  /\ ~panicked
  /\ bcast = NoBroadcast
  /\ RLockFree
  /\ broadcasts < MaxBroadcasts
  /\ broadcasts' = broadcasts + 1
  /\ bcast' = [job |-> job, todo |-> jobClients[job], sent |-> {}, full |-> {},
               blocked |-> Nil]
  /\ HubUnchanged({"bcast", "broadcasts"})

\* one round of BroadcastToJob's loop, for client c
BroadcastToJobSend(c) ==
  /\ ~panicked
  /\ bcast # NoBroadcast
  /\ bcast.blocked = Nil
  /\ c \in bcast.todo
  /\ IF sendClosed[c]
     THEN /\ panicked' = TRUE
          /\ UNCHANGED <<Send, bcast>>
     ELSE IF Send[c] < MaxBuffer
     THEN /\ Send' = [Send EXCEPT ![c] = @ + 1]
          /\ bcast' = [bcast EXCEPT !.todo = @ \ {c}, !.sent = @ \cup {c}]
          /\ UNCHANGED panicked
     ELSE \* default: h.unregister <- client, which blocks
          /\ bcast' = [bcast EXCEPT !.todo = @ \ {c}, !.full = @ \cup {c},
                                    !.blocked = c]
          /\ UNCHANGED <<panicked, Send>>
  /\ HubUnchanged({"Send", "bcast", "panicked"})

\* Hub.Run takes the broadcaster's client from unregister
RunTakesDropped(c) ==
  /\ ~panicked
  /\ hubRun = Selecting
  /\ bcast # NoBroadcast
  /\ bcast.blocked = c
  /\ hubRun' = [op |-> "unregister", client |-> c]
  /\ bcast' = [bcast EXCEPT !.blocked = Nil]
  /\ HubUnchanged({"hubRun", "bcast"})

\* BroadcastToJob returns: RUnlock
BroadcastToJobEnd ==
  /\ ~panicked
  /\ bcast # NoBroadcast
  /\ bcast.blocked = Nil
  /\ bcast.todo = {}
  /\ bcast' = NoBroadcast
  /\ HubUnchanged({"bcast"})

\* NewHub, and no connection yet
HubInit ==
  /\ clients = {}
  /\ userClients = [u \in Users |-> {}]
  /\ jobClients = [j \in HubJobs |-> {}]
  /\ clientUserID = [c \in Clients |-> Nil]
  /\ clientJobID = [c \in Clients |-> Nil]
  /\ Send = [c \in Clients |-> 0]
  /\ sendClosed = [c \in Clients |-> FALSE]
  /\ rpc = [c \in Clients |-> "none"]
  /\ hubRun = Selecting
  /\ bcast = NoBroadcast
  /\ broadcasts = 0
  /\ panicked = FALSE
  /\ resub = [c \in Clients |-> NoResub]

(***************************************************************************)
(* The queue specification: producers enqueue fresh jobs, one consumer     *)
(* dequeues, payload keys may expire.                                      *)
(***************************************************************************)
Range(s) == {s[i] : i \in 1..Len(s)}

QueueInitOver(ids) ==
  /\ zset = {}
  /\ jobData = [j \in ids |-> NoJob]
  /\ statusProj = [j \in ids |-> NoProj]
  /\ enqOrder = <<>>
  /\ deqOrder = <<>>
  /\ anyExpired = FALSE
  /\ qret = NoReturn
  /\ dq = [w \in DequeueCallers |-> 0]

IdleRestOver(ids) ==
  /\ jobs = [j \in ids |-> NoJob]
  /\ credits = [u \in Users |-> DefaultCredits]
  /\ wpc = [j \in ids |-> "none"]
  /\ wjob = [j \in ids |-> NoJob]
  /\ attempts = [j \in ids |-> 0]
  /\ consecutiveErrors = [j \in ids |-> 0]
  /\ wprov = [j \in ids |-> ""]
  /\ wmsg = [j \in ids |-> ""]
  /\ errRun = [j \in ids |-> 0]
  /\ progressCalls = [j \in ids |-> 0]
  /\ events = [j \in ids |-> <<>>]
  /\ lastEvent = [j \in ids |-> NoEvent]
  /\ cpc = [c \in Callers |-> "idle"]
  /\ cjob = [c \in Callers |-> NoJob]
  /\ ctarget = [c \in Callers |-> NoCall]
  /\ cres = [absent |-> TRUE]
  /\ cancelCalls = 0
  /\ dbErrs = 0
  /\ gpc = [r \in Requests |-> "idle"]
  /\ greq = [r \in Requests |-> NoRequest]
  /\ gres = [r \in Requests |-> Nil]
  /\ stopClosed = FALSE
  /\ ctxCancelled = FALSE
  /\ runpc = "running"

IdleRest == IdleRestOver(JobIds)

QEnqueue ==
  \E id \in DOMAIN jobData, elapsed \in ClockSteps, outcome \in EnqueueOutcomes :
    /\ id \notin Range(enqOrder)
    /\ jobData[id] = NoJob
    /\ outcome # "ok" => CanFail
    /\ Enqueue(id, NewVideoJob("u1", DefaultDuration, 1), elapsed, outcome)
    /\ qret' = [op |-> "Enqueue", id |-> id, err |-> EnqueueReturns(outcome)]
    /\ dbErrs' = IF outcome = "ok" THEN dbErrs ELSE dbErrs + 1

QDequeue ==
  \E id \in {0} \cup DOMAIN jobData, outcome \in DequeueOutcomes :
    /\ outcome # "ok" => CanFail
    /\ Dequeue(id, outcome)
    /\ qret' = [op |-> "Dequeue", job |-> id, err |-> DequeueReturns(zset, jobData, outcome)]
    /\ dbErrs' = IF outcome = "ok" THEN dbErrs ELSE dbErrs + 1

QExpire ==
  /\ \E id \in DOMAIN jobData : ExpirePayload(id)
  /\ qret' = NoReturn
  /\ UNCHANGED dbErrs

QueueRest ==
  <<jobs, credits, wvars, evars, cvars, svars, tickCap, plan, gvars, stvars, dq, hvars>>

\* the clock at the start, as nanoseconds past a float64 value
ClockOffsets == {0, 127, 128}

QueueInit ==
  /\ QueueInitOver(QueueJobIds)
  /\ tickCap = MaxTicks
  /\ plan = FreePlan
  /\ now \in ClockOffsets
  /\ IdleRest
  /\ HubInit
  /\ registry = {}
  /\ caps = [p \in Providers |-> [MaxDuration |-> 0]]
  /\ selReq = [absent |-> TRUE]
  /\ selEnv = [absent |-> TRUE]
  /\ selOut = [absent |-> TRUE]

QueueNext ==
  \/ QEnqueue /\ UNCHANGED QueueRest
  \/ QDequeue /\ UNCHANGED QueueRest
  \/ QExpire /\ UNCHANGED QueueRest

SpecQueue == QueueInit /\ [][QueueNext]_vars

(***************************************************************************)
(* Properties of the queue specification.                                  *)
(***************************************************************************)
IsPrefix(s, t) == Len(s) <= Len(t) /\ \A i \in 1..Len(s) : s[i] = t[i]

PositionIn(t, x) == CHOOSE i \in 1..Len(t) : t[i] = x

\* the jobs of s are jobs of t and stand in s in the order they have in t
InOrderOf(s, t) ==
  /\ Range(s) \subseteq Range(t)
  /\ \A i, k \in 1..Len(s) : i < k => PositionIn(t, s[i]) < PositionIn(t, s[k])

\* enqueued jobs whose entry was popped by a Dequeue that returned no job
\* (GET failed, or the payload was gone)
Lost ==
  {id \in Range(enqOrder) :
     id \notin Range(deqOrder) /\ ~\E e \in zset : e.member = id}

PipelineRegistries == {{ProviderMock}, {ProviderWanAI, ProviderMock}}

Init ==
  /\ QueueInitOver(JobIds)
  /\ now = 0
  /\ tickCap = MaxTicks
  /\ plan = FreePlan
  /\ IdleRest
  /\ HubInit
  /\ registry \in PipelineRegistries
  /\ caps = SourceCapabilities
  /\ selReq = [absent |-> TRUE]
  /\ selEnv = [absent |-> TRUE]
  /\ selOut = [absent |-> TRUE]

Intake ==
  \E id \in JobIds, duration \in JobDurations, cost \in JobCosts,
     outcome \in IntakeOutcomes :
    UCGenerateVideo("u1", id, duration, cost, outcome)

\* run's case <-ticker.C
DequeueTick ==
  /\ runpc = "running"
  /\ \E id \in {0} \cup JobIds, outcome \in DequeueOutcomes : processNextJob(id, outcome)

WorkerStep ==
  \E id \in JobIds, ok \in BOOLEAN :
    \/ StartJob(id, ok)
    \/ \E read \in {"ok", "templateErr", "userErr"} : SelectForJob(id, read, ok)
    \/ \E result \in GenerateVideoResults : GenerateForJob(id, result, ok)
    \/ \E progress \in GetProgressResults : PollTick(id, progress, ok)
    \/ \E got \in GetVideoURLResults : completeJob(id, got, ok)
    \/ FailPolledJob(id, ok)

CancelStep ==
  \E c \in Callers :
    \/ \E u \in Users, id \in JobIds : CancelJobRead(c, u, id)
    \/ \E ok \in BOOLEAN : CancelJobWrite(c, ok)
    \/ \E ok \in BOOLEAN : CancelJobRefund(c, ok)

Next ==
  \/ Intake /\ UNCHANGED hvars
  \/ DequeueTick /\ UNCHANGED hvars
  \/ WorkerStep /\ UNCHANGED hvars
  \/ CancelStep /\ UNCHANGED hvars

Spec == Init /\ [][Next]_vars

(***************************************************************************)
(* Properties of the interleaved specification.                            *)
(***************************************************************************)
ResultFields(j) ==
  <<j.status, j.provider, j.videoURL, j.thumbnailURL, j.durationSeconds>>

\* C1: once the row of a job holds completed, failed or cancelled, no step of
\* the worker or of CancelJob changes the row's status, provider, video URL,
\* thumbnail URL or duration.
C1_TerminalRowNeverChanges ==
  [][\A j \in JobIds :
       (jobs[j] # NoJob /\ IsTerminal(jobs[j]))
         => ResultFields(jobs'[j]) = ResultFields(jobs[j])]_vars

\* the step is the GetByID and the checks of a CancelJob call
CancelReadStep == cancelCalls' = cancelCalls + 1
\* the call of that step goes on to its Update
CancelProceeds == \E c \in Callers : cpc[c] = "idle" /\ cpc'[c] = "write"
\* the (user, job) arguments of the call of that step
CancelArgs ==
  IF CancelProceeds
  THEN ctarget'[CHOOSE c \in Callers : cpc[c] = "idle" /\ cpc'[c] = "write"]
  ELSE [user |-> cres'.user, job |-> cres'.job]

\* C4: a CancelJob call of the owner that read the job as pending writes the
\* status cancelled and then, its storage calls succeeding, adds exactly the
\* job's CreditsCharged to the owner's balance and to no other; a CancelJob
\* call of the owner on a job whose row is completed returns
\* ErrJobCannotBeCancelled and changes neither the rows nor the balances.
C4_CancelPendingAndCompleted ==
  [][/\ \A c \in Callers :
          (cpc[c] = "write" /\ cpc'[c] = "refund" /\ cjob[c].status = JobStatusPending)
            => jobs'[ctarget[c].job].status = JobStatusCancelled
     /\ \A c \in Callers :
          (/\ cpc[c] = "refund" /\ cpc'[c] = "idle"
           /\ cjob[c].status = JobStatusPending
           /\ dbErrs' = dbErrs)
            => /\ cres'.result = "ok"
               /\ credits' = [credits EXCEPT ![ctarget[c].user] =
                                @ + jobs[ctarget[c].job].creditsCharged]
     /\ (/\ CancelReadStep
         /\ jobs[CancelArgs.job] # NoJob
         /\ jobs[CancelArgs.job].status = JobStatusCompleted
         /\ jobs[CancelArgs.job].userID = CancelArgs.user)
          => /\ ~CancelProceeds
             /\ cres'.result = ErrJobCannotBeCancelled
             /\ jobs' = jobs
             /\ credits' = credits]_vars

\* C4 witness: the owner's CancelJob on a pending job has returned nil, the
\* row is cancelled and the balance is back to what it was before the charge
C4_Witness ==
  /\ cres # [absent |-> TRUE]
  /\ cres.result = "ok"
  /\ cres.read = JobStatusPending
  /\ jobs[cres.job].status = JobStatusCancelled
  /\ jobs[cres.job].userID = cres.user
  /\ credits[cres.user] = DefaultCredits
  /\ dbErrs = 0

\* C5: a CancelJob call never writes its cancellation over a row in which the
\* worker has persisted completed or failed.
C5_NoCancelOverCompletedOrFailed ==
  [][\A c \in Callers :
       (cpc[c] = "write" /\ cpc'[c] = "refund")
         => jobs[ctarget[c].job].status \notin {JobStatusCompleted, JobStatusFailed}]_vars

\* C7: a row, a status projection or a completed event that says completed
\* says progress 100.
C7_CompletedMeansProgress100 ==
  \A j \in JobIds :
    /\ (jobs[j] # NoJob /\ jobs[j].status = JobStatusCompleted)
         => jobs[j].progress = 100
    /\ (statusProj[j] # NoProj /\ statusProj[j].status = JobStatusCompleted)
         => statusProj[j].progress = 100
    /\ (lastEvent[j] # NoEvent /\ lastEvent[j].type = "completed")
         => /\ lastEvent[j].status = JobStatusCompleted
            /\ lastEvent[j].progress = 100

\* C7 witness: a job was completed by the polling loop, and the row, the
\* projection and the event say so
C7_Witness ==
  \E j \in JobIds :
    /\ jobs[j] # NoJob /\ jobs[j].status = JobStatusCompleted
    /\ statusProj[j] # NoProj /\ statusProj[j].status = JobStatusCompleted
    /\ lastEvent[j] # NoEvent /\ lastEvent[j].type = "completed"
    /\ attempts[j] > 0

(***************************************************************************)
(* The polling specification: one worker, no CancelJob calls, and a longer *)
(* polling loop.                                                           *)
(***************************************************************************)
PollInit ==
  /\ QueueInitOver(JobIds)
  /\ now = 0
  /\ tickCap = MaxPollTicks
  /\ plan = FreePlan
  /\ IdleRest
  /\ HubInit
  /\ registry = {ProviderWanAI, ProviderMock}
  /\ caps = SourceCapabilities
  /\ selReq = [absent |-> TRUE]
  /\ selEnv = [absent |-> TRUE]
  /\ selOut = [absent |-> TRUE]

PollNext ==
  \/ Intake /\ UNCHANGED hvars
  \/ DequeueTick /\ UNCHANGED hvars
  \/ WorkerStep /\ UNCHANGED hvars

SpecPoll == PollInit /\ [][PollNext]_vars

\* the step is a tick of j's polling loop that called GetProgress
PolledStep(j) ==
  /\ wpc[j] = "poll"
  /\ attempts'[j] = attempts[j] + 1
  /\ attempts'[j] <= maxAttempts

FailedByPolling(job) ==
  /\ job.status = JobStatusFailed
  /\ job.errorMessage = PollErrorMessage(maxConsecutiveErrors)

\* C3: the tick on which GetProgress fails for the 5th time in a row fails
\* the job with the message "Failed to get progress after 5 attempts: ..."
\* (in the row, the projection and a failed event when the Update succeeds),
\* and no completed event was or is sent for it; a failure that is not the
\* 5th in a row changes nothing; an answer after fewer than 5 failures sets
\* consecutiveErrors to 0 and, unless it reports COMPLETED or FAILED, leaves
\* the job polling with a non-terminal status; and a job is failed by
\* polling only on a 5th failure in a row since the last answer.
C3_ConsecutivePollErrors ==
  [][\A j \in JobIds :
       PolledStep(j) =>
         /\ consecutiveErrors'[j] = errRun'[j]
         /\ errRun'[j] = maxConsecutiveErrors =>
              /\ wpc'[j] = "done"
              /\ FailedByPolling(wjob'[j])
              /\ "completed" \notin Range(events'[j])
              /\ dbErrs' = dbErrs =>
                   /\ FailedByPolling(jobs'[j])
                   /\ statusProj'[j].status = JobStatusFailed
                   /\ lastEvent'[j].type = "failed"
         /\ errRun'[j] \in 1..(maxConsecutiveErrors - 1) =>
              /\ wpc'[j] = "poll"
              /\ <<wjob'[j], jobs'[j], events'[j]>> = <<wjob[j], jobs[j], events[j]>>
         /\ (errRun[j] = maxConsecutiveErrors - 1 /\ errRun'[j] = 0) =>
              /\ consecutiveErrors'[j] = 0
              /\ wpc'[j] = "poll" =>
                   ~IsTerminal(wjob'[j]) /\ ~IsTerminal(jobs'[j])
         /\ FailedByPolling(wjob'[j]) => errRun'[j] = maxConsecutiveErrors]_vars

\* C3 witness: 4 failures, an answer, then 5 failures: the job is failed by
\* polling on its 10th tick
C3_Witness ==
  \E j \in JobIds :
    /\ attempts[j] = 2 * maxConsecutiveErrors
    /\ errRun[j] = maxConsecutiveErrors
    /\ jobs[j] # NoJob /\ FailedByPolling(jobs[j])
    /\ lastEvent[j].type = "failed"
    /\ Len(events[j]) = 3

\* C6: while the row of a job is non-terminal, no write lowers its progress.
C6_ProgressNeverDecreases ==
  [][\A j \in JobIds :
       (jobs[j] # NoJob /\ ~IsTerminal(jobs[j]) /\ ~IsTerminal(jobs'[j]))
         => jobs'[j].progress >= jobs[j].progress]_vars

(***************************************************************************)
(* The selector specification: one SelectProvider call on a registry and   *)
(* capabilities drawn at the start.                                        *)
(***************************************************************************)
OtherTiers == {"premium", "standard", "budget", ""}
OtherTimes == {0, 100}

\* the declared capabilities, and the same with the quality tier and the
\* estimated time of the providers other than Wan AI replaced
CapabilityChoices ==
  {SourceCapabilities}
  \cup {[p \in Providers |->
           IF p = ProviderWanAI THEN SourceCapabilities[p]
           ELSE [SourceCapabilities[p] EXCEPT !.QualityTier = t, !.EstimatedTime = e]] :
          t \in OtherTiers, e \in OtherTimes}

SelectionDurations == {DefaultDuration, 90, 150}

SelectionRequests ==
  [UserTier : {UserTierFree, UserTierPremium, UserTierPro},
   PreferredProvider : {Nil, ProviderWanAI, ProviderGeminiVEO},
   RequiredResolution : {Resolution1080p, Resolution4K},
   RequiredDuration : SelectionDurations]

SelectorInit ==
  /\ QueueInitOver(JobIds)
  /\ now = 0
  /\ tickCap = MaxTicks
  /\ plan = FreePlan
  /\ IdleRest
  /\ HubInit
  /\ registry \in SUBSET Providers
  /\ caps \in CapabilityChoices
  /\ selReq = [absent |-> TRUE]
  /\ selEnv = [absent |-> TRUE]
  /\ selOut = [absent |-> TRUE]

Select ==
  /\ selOut = [absent |-> TRUE]
  /\ \E req \in SelectionRequests, hp \in HealthOutcomes, order \in Orders(registry),
        hg \in [registry -> HealthOutcomes] :
       /\ selReq' = req
       /\ selEnv' = [hp |-> hp, order |-> order, hg |-> hg]
       /\ selOut' = SelectProvider(req, hp, order, hg)
  /\ UNCHANGED <<jobs, credits, qvars, wvars, evars, cvars, registry, caps, dbErrs,
                 tickCap, plan, gvars, stvars, qret, dq, hvars>>

SelectorNext == Select

SpecSelector == SelectorInit /\ [][SelectorNext]_vars

Answered == selOut # [absent |-> TRUE]

\* C8: the provider SelectProvider returns has a MaxDuration of at least the
\* request's RequiredDuration.
C8_NeverBelowRequiredDuration ==
  (Answered /\ selOut.provider # Nil)
    => caps[selOut.provider].MaxDuration >= selReq.RequiredDuration

\* every registered provider passes the resolution and duration filters and
\* every HealthCheck call answered healthy without error
AllEligibleAndHealthy ==
  /\ \A p \in registry :
       /\ supportsResolution(caps[p].MaxResolution, selReq.RequiredResolution)
       /\ caps[p].MaxDuration >= selReq.RequiredDuration
       /\ selEnv.hg[p] = [health |-> "healthy", err |-> FALSE]
  /\ selEnv.hp = [health |-> "healthy", err |-> FALSE]

WanAIOutscoresAll ==
  \A p \in registry \ {ProviderWanAI} :
    scoreProvider(ProviderWanAI, selReq.UserTier) > scoreProvider(p, selReq.UserTier)

\* C9 as stated: when Wan AI and the other registered providers are all
\* eligible and healthy, Wan AI outscores every other provider and
\* SelectProvider returns it.
C9_WanAIAlwaysReturned ==
  (Answered /\ ProviderWanAI \in registry /\ AllEligibleAndHealthy)
    => WanAIOutscoresAll /\ selOut.provider = ProviderWanAI

\* C9: when Wan AI and the other registered providers are all eligible and
\* healthy, Wan AI outscores every other provider, and SelectProvider returns
\* it unless the request prefers another registered provider.
C9_WanAIReturnedUnlessOtherPreferred ==
  (Answered /\ ProviderWanAI \in registry /\ AllEligibleAndHealthy)
    => /\ WanAIOutscoresAll
       /\ selReq.PreferredProvider \notin registry \ {ProviderWanAI}
            => selOut.provider = ProviderWanAI
       /\ selReq.PreferredProvider \in registry => selOut.provider = selReq.PreferredProvider

\* C9 witness: no preference, a paying user, the three providers registered,
\* eligible and healthy, the others premium with estimated time 0, Wan AI
\* last in the order of GetAll(), and Wan AI is returned
C9_Witness ==
  /\ Answered
  /\ registry = Providers
  /\ AllEligibleAndHealthy
  /\ selReq.PreferredProvider = Nil
  /\ selReq.UserTier = UserTierPro
  /\ \A p \in Providers \ {ProviderWanAI} :
       caps[p].QualityTier = "premium" /\ caps[p].EstimatedTime = 0
  /\ selEnv.order[3] = ProviderWanAI
  /\ selOut.provider = ProviderWanAI

(***************************************************************************)
(* The hub specification: connections come and go, clients subscribe,      *)
(* writePump drains, and jobs' events are broadcast.                       *)
(***************************************************************************)
HubSpecInit ==
  /\ QueueInitOver(JobIds)
  /\ now = 0
  /\ tickCap = MaxTicks
  /\ plan = FreePlan
  /\ IdleRest
  /\ HubInit
  /\ registry = {}
  /\ caps = SourceCapabilities
  /\ selReq = [absent |-> TRUE]
  /\ selEnv = [absent |-> TRUE]
  /\ selOut = [absent |-> TRUE]

Connect ==
  \E c \in Clients :
    \E u \in ConnectUsers(c), job \in HubJobs \cup {Nil} : HandleJobConnection(c, u, job)

HubRunStep ==
  \E c \in Clients :
    \/ RunTakesRegister(c)
    \/ registerClient(c)
    \/ RunTakesUnregister(c)
    \/ RunTakesDropped(c)
    \/ unregisterClient(c)

ClientStep ==
  \E c \in Clients :
    \/ \E job \in HubJobs : handleSubscribeJob(c, job)
    \/ handlePing(c)
    \/ sendConfirmation(c)
    \/ writePump(c)
    \/ readPumpExit(c)

BroadcastStep ==
  \/ \E job \in HubJobs : BroadcastToJobStart(job)
  \/ \E c \in Clients : BroadcastToJobSend(c)
  \/ BroadcastToJobEnd

HubNext ==
  \/ Connect /\ UNCHANGED pvars
  \/ HubRunStep /\ UNCHANGED pvars
  \/ ClientStep /\ UNCHANGED pvars
  \/ BroadcastStep /\ UNCHANGED pvars

SpecHub == HubSpecInit /\ [][HubNext]_vars

\* the client's latest subscribe_job moved it from one job to another
Resubscribed(c) ==
  /\ resub[c] # NoResub
  /\ resub[c].from # Nil
  /\ resub[c].from # resub[c].to

\* a BroadcastToJob call has visited every client it looked up
BroadcastLoopOver ==
  /\ bcast # NoBroadcast
  /\ bcast.todo = {}
  /\ bcast.blocked = Nil

\* C10 as stated: after SubscribeToJob(client, B) completed for a client that
\* was subscribed to job A, no later BroadcastToJob(A) puts its event in the
\* client's Send, and every later BroadcastToJob(B) that has visited all its
\* clients has put its event in the Send of the client, which is still
\* registered.  (SubscribeToJob runs under Lock, so a call that holds RLock
\* while the client's latest subscription is to B started after it.)
C10_ResubscribedReceivesEveryBroadcast ==
  \A c \in Clients :
    Resubscribed(c) /\ bcast # NoBroadcast =>
      /\ bcast.job = resub[c].from => c \notin bcast.sent
      /\ bcast.job = resub[c].to /\ BroadcastLoopOver /\ c \in clients =>
           c \in bcast.sent

\* C10, amended: after SubscribeToJob(client, B) completed for a client that
\* was subscribed to job A, no later BroadcastToJob(A) puts its event in the
\* client's Send, and every later BroadcastToJob(B) that has visited all its
\* clients has, for the client that is still registered, either put its event
\* in the client's Send or found the Send full and handed the client to
\* unregister.
C10_ResubscribedReceivesUnlessFull ==
  \A c \in Clients :
    Resubscribed(c) /\ bcast # NoBroadcast =>
      /\ bcast.job = resub[c].from => c \notin bcast.sent
      /\ bcast.job = resub[c].to /\ BroadcastLoopOver /\ c \in clients =>
           c \in bcast.sent \cup bcast.full

\* k1, moved from A to B, took the event of a later broadcast for B, after an
\* earlier call had broadcast too
C10_Witness ==
  /\ resub["k1"] = [from |-> "A", to |-> "B"]
  /\ "k1" \in clients
  /\ BroadcastLoopOver
  /\ bcast.job = "B"
  /\ "k1" \in bcast.sent
  /\ broadcasts = 2


\* C11: a BroadcastToJob call is never stuck.  The call holds RLock until it
\* returns; at a full client it sends on unregister, which completes only
\* when Hub.Run is at its select.  If Hub.Run has left its select for
\* registerClient or unregisterClient it waits for Lock, that is for the call
\* to return: in such a state neither of the two ever moves again.
C11_BroadcastAlwaysReturns ==
  ~(/\ bcast # NoBroadcast
    /\ bcast.blocked # Nil
    /\ hubRun # Selecting)

(***************************************************************************)
(* Properties of the polling specification, continued.                     *)
(***************************************************************************)
\* the step is the one in which processJob got an immediate result from
\* GenerateVideo (a non-empty video URL)
ImmediateResultStep(j) ==
  /\ wpc[j] = "generate"
  /\ wpc'[j] = "done"
  /\ wjob'[j].status = JobStatusCompleted

CountOf(seq, x) == Cardinality({i \in 1..Len(seq) : seq[i] = x})

\* C12: when GenerateVideo returns an immediate result and the worker's
\* Update succeeds, the row is completed with progress 100, its video URL is
\* the non-empty one of the result and its thumbnail URL is set, no polling
\* tick was made for the job, and the events of the job hold exactly one
\* completed event, the last; and once processJob has returned nothing of
\* the job's row, events and polling count changes any more.
C12_ImmediateResultCompletes ==
  [][\A j \in JobIds :
       /\ (ImmediateResultStep(j) /\ dbErrs' = dbErrs) =>
            /\ jobs'[j].status = JobStatusCompleted
            /\ jobs'[j].progress = 100
            /\ jobs'[j].videoURL \notin {Nil, ""}
            /\ jobs'[j].thumbnailURL # Nil
            /\ attempts'[j] = 0
            /\ events'[j] = Append(events[j], "completed")
            /\ CountOf(events'[j], "completed") = 1
            /\ lastEvent'[j].status = JobStatusCompleted
            /\ lastEvent'[j].progress = 100
       /\ wpc[j] = "done" =>
            <<jobs'[j], events'[j], attempts'[j], wpc'[j]>>
              = <<jobs[j], events[j], attempts[j], wpc[j]>>]_vars

\* C12 witness: a job completed by an immediate result, never polled
C12_Witness ==
  \E j \in JobIds :
    /\ wpc[j] = "done"
    /\ jobs[j] # NoJob /\ jobs[j].status = JobStatusCompleted
    /\ jobs[j].progress = 100
    /\ jobs[j].videoURL = "cdn/videos/task.mp4"
    /\ jobs[j].thumbnailURL = "cdn/thumbnails/task.jpg"
    /\ attempts[j] = 0
    /\ events[j] = <<"status_update", "completed">>

(***************************************************************************)
(* The scenario specification: one worker, no CancelJob calls, and a       *)
(* provider whose answers to the first GetProgress calls are fixed at the  *)
(* start.                                                                  *)
(***************************************************************************)
Processing(percent) ==
  [err |-> FALSE, Percent |-> percent, Stage |-> "PROCESSING", Message |-> "progress"]

\* the polls of the second end-to-end scenario
ScenarioPolls ==
  <<Processing(10), Processing(45), Processing(80),
    [err |-> FALSE, Percent |-> 100, Stage |-> "COMPLETED", Message |-> "progress"]>>

ScenarioPlan(polls) ==
  [script |-> [n \in 1..Len(polls) |-> {polls[n]}], rest |-> {}]

ScenarioPlans ==
  {ScenarioPlan(polls) :
     polls \in [1..Len(ScenarioPolls) -> Range(ScenarioPolls) \cup {NoResult}]}

ScenarioInit ==
  /\ QueueInitOver(JobIds)
  /\ now = 0
  /\ tickCap = MaxPollTicks
  /\ plan \in ScenarioPlans
  /\ IdleRest
  /\ HubInit
  /\ registry = {ProviderWanAI, ProviderMock}
  /\ caps = SourceCapabilities
  /\ selReq = [absent |-> TRUE]
  /\ selEnv = [absent |-> TRUE]
  /\ selOut = [absent |-> TRUE]

SpecScenario == ScenarioInit /\ [][PollNext]_vars

\* C13: when GenerateVideo returned a handle, the polls answer PROCESSING at
\* 10, 45 and 80 and then COMPLETED, and no storage call failed, the job's
\* events hold exactly three progress_update events and exactly one
\* completed event, the last, and the row's progress is 100.
C13_ThreeProgressUpdatesThenCompleted ==
  \A j \in JobIds :
    (/\ plan = ScenarioPlan(ScenarioPolls)
     /\ wpc[j] = "done"
     /\ attempts[j] = Len(ScenarioPolls)
     /\ dbErrs = 0)
    => /\ CountOf(events[j], "progress_update") = 3
       /\ CountOf(events[j], "completed") = 1
       /\ events[j][Len(events[j])] = "completed"
       /\ jobs[j].progress = 100

(***************************************************************************)
(* The timeout specification: one worker, no CancelJob calls, a provider   *)
(* that never reports a terminal stage, and room for the polling loop to   *)
(* run beyond its maximum attempt count.                                   *)
(***************************************************************************)
\* GetProgress reports that the task is still being processed; each of the
\* first calls may fail instead
NeverTerminalPlan ==
  [script |-> [n \in 1..maxConsecutiveErrors |-> {NoResult, Processing(45)}],
   rest |-> {Processing(45)}]

TimeoutInit ==
  /\ QueueInitOver(JobIds)
  /\ now = 0
  /\ tickCap = maxAttempts + 2
  /\ plan = NeverTerminalPlan
  /\ IdleRest
  /\ HubInit
  /\ registry = {ProviderWanAI, ProviderMock}
  /\ caps = SourceCapabilities
  /\ selReq = [absent |-> TRUE]
  /\ selEnv = [absent |-> TRUE]
  /\ selOut = [absent |-> TRUE]

SpecTimeout == TimeoutInit /\ [][PollNext]_vars

\* C14: GetProgress is called at most 360 times for a job; the polling loop
\* is left by its 361st tick at the latest; and the 361st tick, reached
\* without a terminal stage and without 5 errors in a row, calls failJob with
\* the timeout message and makes no GetProgress call: the job is failed with
\* that message in the row, the projection and a failed event when failJob's
\* Update succeeds.
C14_TimeoutAfterMaxAttempts ==
  [][\A j \in JobIds :
       /\ progressCalls'[j] <= maxAttempts
       /\ attempts'[j] <= maxAttempts + 1
       /\ wpc'[j] = "poll" => attempts'[j] <= maxAttempts
       /\ (wpc[j] = "poll" /\ attempts[j] = maxAttempts /\ attempts'[j] = maxAttempts + 1) =>
            /\ wpc'[j] = "done"
            /\ progressCalls'[j] = progressCalls[j]
            /\ wjob'[j].status = JobStatusFailed
            /\ wjob'[j].errorMessage = TimeoutMessage
            /\ dbErrs' = dbErrs =>
                 /\ jobs'[j].status = JobStatusFailed
                 /\ jobs'[j].errorMessage = TimeoutMessage
                 /\ statusProj'[j].status = JobStatusFailed
                 /\ lastEvent'[j].type = "failed"
                 /\ events'[j] = Append(events[j], "failed")]_vars

\* C14 witness: a job failed by the timeout after 360 GetProgress calls
C14_Witness ==
  \E j \in JobIds :
    /\ wpc[j] = "done"
    /\ attempts[j] = maxAttempts + 1
    /\ progressCalls[j] = maxAttempts
    /\ jobs[j].status = JobStatusFailed
    /\ jobs[j].errorMessage = TimeoutMessage
    /\ lastEvent[j].type = "failed"

(***************************************************************************)
(* The credits specification: concurrent GenerateVideo requests, taken     *)
(* step by step, and CancelJob calls on the jobs they created.             *)
(***************************************************************************)
RequestCosts == {2, 3}

CreditsInit ==
  /\ QueueInitOver(Requests)
  /\ now = 0
  /\ tickCap = MaxTicks
  /\ plan = FreePlan
  /\ IdleRestOver(Requests)
  /\ HubInit
  /\ registry = {}
  /\ caps = SourceCapabilities
  /\ selReq = [absent |-> TRUE]
  /\ selEnv = [absent |-> TRUE]
  /\ selOut = [absent |-> TRUE]

GenerateStep ==
  \E r \in Requests :
    \/ \E u \in Users, cost \in RequestCosts : GenerateVideoRead(r, u, cost)
    \/ GenerateVideoDebit(r)
    \/ GenerateVideoReread(r)
    \/ \E outcome \in IntakeOutcomes : GenerateVideoCreate(r, outcome)

CreditsCancelStep ==
  \E c \in Callers :
    \/ \E u \in Users, id \in Requests : CancelJobRead(c, u, id)
    \/ \E ok \in BOOLEAN : CancelJobWrite(c, ok)
    \/ \E ok \in BOOLEAN : CancelJobRefund(c, ok)

CreditsNext ==
  \/ GenerateStep /\ UNCHANGED hvars
  \/ CreditsCancelStep /\ UNCHANGED hvars

SpecCredits == CreditsInit /\ [][CreditsNext]_vars

\* the balance is never negative, and the UPDATE of a request debits the
\* cost exactly when the balance at that moment is at least the cost
DebitOnlyIfCovered ==
  /\ \A u \in Users : credits'[u] >= 0
  /\ \A r \in Requests :
       (gpc[r] = "debit" /\ gpc'[r] # "debit") =>
         IF credits[greq[r].user] >= greq[r].cost
         THEN /\ credits'[greq[r].user] = credits[greq[r].user] - greq[r].cost
              /\ gpc'[r] = "create"
         ELSE /\ credits' = credits
              /\ gpc'[r] = "reread"

\* a request whose UPDATE was refused returns ErrInsufficientCredits and
\* leaves no job and the balance as it is
RefusedDebitReturns(err) ==
  \A r \in Requests :
    (gpc[r] = "reread" /\ gpc'[r] = "done") =>
      /\ gres'[r] = err
      /\ jobs'[r] = NoJob
      /\ credits' = credits

\* C15: under every interleaving of GenerateVideo requests and CancelJob
\* refunds the balance is never negative; a request's debit is applied only
\* if the balance covers it at the moment of the UPDATE; and a request whose
\* debit is refused fails with ErrInsufficientCredits, creates no job and
\* leaves the balance unchanged.
C15_DebitRefusedWithInsufficientCredits ==
  [][DebitOnlyIfCovered /\ RefusedDebitReturns(ErrInsufficientCredits)]_vars

(***************************************************************************)
(* The shutdown specification: intake and one worker, Stop and the         *)
(* cancellation of the context.  A goroutine that can take a step takes    *)
(* one, and a select with a ready stop case takes it in the end.           *)
(***************************************************************************)
StopInit ==
  /\ QueueInitOver(JobIds)
  /\ now = 0
  /\ tickCap = MaxTicks
  /\ plan = FreePlan
  /\ IdleRest
  /\ HubInit
  /\ registry = {ProviderWanAI, ProviderMock}
  /\ caps = SourceCapabilities
  /\ selReq = [absent |-> TRUE]
  /\ selEnv = [absent |-> TRUE]
  /\ selOut = [absent |-> TRUE]

ProcessJobStep == WorkerStep /\ UNCHANGED hvars

StopNext ==
  \/ Intake /\ UNCHANGED hvars
  \/ DequeueTick /\ UNCHANGED hvars
  \/ ProcessJobStep
  \/ Stop
  \/ CancelContext
  \/ runReturns
  \/ \E id \in JobIds : pollForCompletionReturns(id)

SpecStop ==
  /\ StopInit
  /\ [][StopNext]_vars
  /\ WF_vars(ProcessJobStep)
  /\ WF_vars(runReturns)
  /\ \A id \in JobIds : WF_vars(pollForCompletionReturns(id))

\* no job is inside a polling loop
NoPollingLoop == \A j \in JobIds : wpc[j] \notin {"poll", "complete", "fail"}

\* C16: once stopChan is closed or the context cancelled, run returns and
\* every polling loop is left in the end; after run returned no entry leaves
\* the queue and no job is handed to processJob any more, and after a
\* polling loop returned on the signal no GetProgress call is made for its
\* job and the loop stays left.
C16_ShutdownStopsLoops ==
  /\ (stopClosed \/ ctxCancelled) ~> (runpc = "stopped" /\ NoPollingLoop)
  /\ [][/\ runpc = "stopped" =>
             /\ runpc' = "stopped"
             /\ deqOrder' = deqOrder
             /\ zset \subseteq zset'
             /\ \A j \in JobIds : wpc[j] = "none" => wpc'[j] = "none"
        /\ \A j \in JobIds :
             wpc[j] = "stopped" =>
               /\ wpc'[j] = "stopped"
               /\ progressCalls'[j] = progressCalls[j]]_vars

\* C16 witness: run has returned with a job still queued, and a polling loop
\* that had made a GetProgress call has returned on the signal
C16_Witness ==
  /\ ctxCancelled
  /\ ~stopClosed
  /\ runpc = "stopped"
  /\ \E j \in JobIds : wpc[j] = "stopped" /\ progressCalls[j] > 0

(***************************************************************************)
(* Properties of the polling specification: the end of processJob.         *)
(***************************************************************************)
\* C17: when processJob has returned for a dequeued job, the job's row in
\* the system of record is completed or failed.
C17_DequeuedJobEndsTerminal ==
  \A j \in JobIds :
    wpc[j] = "done" => jobs[j].status \in {JobStatusCompleted, JobStatusFailed}

\* C18: the status of every row of the system of record, of every entry of
\* the status projection and of every broadcast payload that carries one is
\* one of the seven wire strings.
C18_StatusIsWireString ==
  \A j \in JobIds :
    /\ jobs[j] # NoJob => jobs[j].status \in WireStatuses
    /\ statusProj[j] # NoProj => statusProj[j].status \in WireStatuses
    /\ (lastEvent[j] # NoEvent /\ "status" \in DOMAIN lastEvent[j])
         => lastEvent[j].status \in WireStatuses

(***************************************************************************)
(* Properties of the queue specification: what Enqueue and Dequeue return. *)
(***************************************************************************)
InQueue(set, id) == \E e \in set : e.member = id

\* the entry ZPOPMIN takes: below every other entry
Lowest(set, e) == e \in set /\ \A f \in set \ {e} : ZLess(e, f)

\* C19: Enqueue returns nil only with the payload written and the id in the
\* priority structure; after a failed payload write the id is not in the
\* priority structure; and whenever the payload or the id is missing after
\* the call, the call returned an error.
C19_EnqueueAllOrError ==
  [][qret'.op = "Enqueue" =>
       LET id == qret'.id IN
       /\ qret'.err = Nil => jobData'[id] # NoJob /\ InQueue(zset', id)
       /\ jobData'[id] = NoJob => ~InQueue(zset', id)
       /\ (jobData'[id] = NoJob \/ ~InQueue(zset', id)) => qret'.err # Nil
       /\ dbErrs' = dbErrs => qret'.err = Nil]_vars

\* C19 witness: an Enqueue whose ZADD failed after the payload was written,
\* and that returned the error
C19_Witness ==
  /\ qret.op = "Enqueue"
  /\ jobData[qret.id] # NoJob
  /\ ~InQueue(zset, qret.id)
  /\ qret.err = "failed to add to queue"

\* C20: a Dequeue whose ZPOPMIN succeeds on a queue with entries removes
\* exactly the lowest entry; on a queue without entries it returns a nil job
\* and a nil error; and when the payload of the removed entry is missing it
\* returns a nil job and a nil error as well.
C20_DequeueLowestOrNil ==
  [][qret'.op = "Dequeue" =>
       /\ (zset # {} /\ qret'.err # "failed to dequeue") =>
            \E e \in zset :
              /\ Lowest(zset, e)
              /\ zset' = zset \ {e}
              /\ (jobData[e.member] = NoJob /\ dbErrs' = dbErrs) =>
                   qret'.job = 0 /\ qret'.err = Nil
              /\ qret'.job \in {0, e.member}
       /\ (zset = {} /\ qret'.err # "failed to dequeue") =>
            zset' = zset /\ qret'.job = 0 /\ qret'.err = Nil
       /\ qret'.err # Nil => qret'.job = 0 /\ dbErrs' # dbErrs]_vars

\* C20 witness: a Dequeue that removed an entry whose payload had expired
\* and returned a nil job and a nil error
C20_Witness ==
  /\ qret.op = "Dequeue"
  /\ qret.job = 0
  /\ qret.err = Nil
  /\ anyExpired
  /\ dbErrs = 0
  /\ Len(deqOrder) < Len(enqOrder) - Cardinality(zset)

(***************************************************************************)
(* Properties of the selector specification, continued.                    *)
(***************************************************************************)
\* lines 286-292: p passes the resolution and the duration requirement
SatisfiesRequirements(p) ==
  /\ supportsResolution(caps[p].MaxResolution, selReq.RequiredResolution)
  /\ caps[p].MaxDuration >= selReq.RequiredDuration

PreferredRegistered ==
  selReq.PreferredProvider # Nil /\ selReq.PreferredProvider \in registry

\* C21: when the request names a preferred provider that is registered,
\* SelectProvider returns that provider, whatever the HealthCheck calls
\* answer and whatever else is registered.
C21_PreferredRegisteredReturned ==
  (Answered /\ PreferredRegistered) => selOut = Selected(selReq.PreferredProvider)

C23_HealthNeverGates ==
  (Answered /\ \E p \in registry : SatisfiesRequirements(p)) => selOut.err = Nil

(***************************************************************************)
(* Properties of the polling specification: failures and their effects.    *)
(***************************************************************************)
\* C24: a row that is failed carries a non-empty error message, and the
\* last event broadcast for the job is a failed event with that message.
C24_FailureHasMessageAndEvent ==
  \A j \in JobIds :
    (jobs[j] # NoJob /\ jobs[j].status = JobStatusFailed) =>
      /\ jobs[j].errorMessage \notin {Nil, ""}
      /\ lastEvent[j] # NoEvent
      /\ lastEvent[j].type = "failed"
      /\ lastEvent[j].error_message = jobs[j].errorMessage

(***************************************************************************)
(* Properties of the credits specification: a failed Enqueue.              *)
(***************************************************************************)
\* C25: the step of GenerateVideo in which Enqueue fails, after the debit,
\* returns the error of Enqueue and gives the cost back, so that the call
\* leaves the balance as it would be without it.
C25_EnqueueFailureRefunds ==
  [][\A r \in Requests :
       (gpc[r] = "create" /\ gpc'[r] = "done" /\ jobs'[r] # NoJob
          /\ jobs'[r].status = JobStatusFailed) =>
         /\ gres'[r] \in {"setErr", "zaddErr"}
         /\ credits'[greq[r].user] = credits[greq[r].user] + greq[r].cost]_vars

(***************************************************************************)
(* Properties of the interleaved specification: who changes a balance.     *)
(***************************************************************************)
\* the worker ends processJob for job j with the job failed
WorkerFails(j) ==
  /\ wpc[j] \notin {"none", "done"}
  /\ wpc'[j] = "done"
  /\ wjob'[j].status = JobStatusFailed

CEnqueue == QEnqueue /\ UNCHANGED QueueRest

CExpire == QExpire /\ UNCHANGED QueueRest

CPop ==
  /\ \E w \in DequeueCallers, outcome \in {"ok", "popErr"} :
       /\ outcome # "ok" => CanFail
       /\ dbErrs' = IF outcome = "ok" THEN dbErrs ELSE dbErrs + 1
       /\ DequeuePop(w, outcome)
  /\ UNCHANGED <<jobs, credits, wvars, evars, cvars, svars, tickCap, plan, gvars, stvars,
                 hvars>>

CGet ==
  /\ \E w \in DequeueCallers, outcome \in {"ok", "getErr"} :
       /\ outcome # "ok" => CanFail
       /\ dbErrs' = IF outcome = "ok" THEN dbErrs ELSE dbErrs + 1
       /\ DequeueGet(w, outcome)
  /\ UNCHANGED <<jobs, credits, wvars, evars, cvars, svars, tickCap, plan, gvars, stvars,
                 hvars>>

DequeueNext ==
  \/ CEnqueue
  \/ CExpire
  \/ CPop
  \/ CGet

SpecDequeue == QueueInit /\ [][DequeueNext]_vars

\* C27: a job enqueued once is returned by Dequeue at most once, whoever
\* calls: no id occurs twice among the returned jobs, no two callers hold
\* the same popped member, and a member a caller holds is neither in the
\* queue nor already returned.
C27_DequeuedAtMostOnce ==
  /\ \A i, k \in 1..Len(deqOrder) : i # k => deqOrder[i] # deqOrder[k]
  /\ \A w \in DequeueCallers :
       dq[w] # 0 =>
         /\ \A v \in DequeueCallers \ {w} : dq[v] # dq[w]
         /\ dq[w] \notin Range(deqOrder)
         /\ ~InQueue(zset, dq[w])

\* C27 witness: two callers are between their ZPOPMIN and their GET at the
\* same time, after another job was returned
C27_Witness ==
  /\ \A w \in DequeueCallers : dq[w] # 0
  /\ Len(deqOrder) >= 1

(***************************************************************************)
(* Properties of the polling specification: the order of the writes.       *)
(***************************************************************************)
\* C28: what the status projection and the last broadcast payload say of a
\* job's status and progress is what the system of record holds: the worker
\* writes the projection and broadcasts only what it has persisted.
C28_PublishedOnlyIfPersisted ==
  \A j \in JobIds :
    /\ statusProj[j] # NoProj =>
         /\ jobs[j] # NoJob
         /\ statusProj[j].status = jobs[j].status
         /\ statusProj[j].progress = jobs[j].progress
    /\ (lastEvent[j] # NoEvent /\ "status" \in DOMAIN lastEvent[j]) =>
         /\ jobs[j] # NoJob
         /\ lastEvent[j].status = jobs[j].status

(***************************************************************************)
(* The polling specification with the registry as main wires it: the mock  *)
(* provider and the Gemini provider, and no provider named wan_ai.         *)
(***************************************************************************)
WiredInit ==
  /\ QueueInitOver(JobIds)
  /\ now = 0
  /\ tickCap = MaxPollTicks
  /\ plan = FreePlan
  /\ IdleRest
  /\ HubInit
  /\ registry = {ProviderMock, ProviderGeminiVEO}
  /\ caps = SourceCapabilities
  /\ selReq = [absent |-> TRUE]
  /\ selEnv = [absent |-> TRUE]
  /\ selOut = [absent |-> TRUE]

SpecWired == WiredInit /\ [][PollNext]_vars

\* C29: in the step in which processJob calls GenerateVideo for a job, the
\* provider in the job's row of the system of record is the selected one.
C29_BindingPersistedBeforeGenerate ==
  [][\A j \in JobIds :
       (wpc[j] = "generate" /\ wpc'[j] # "generate") =>
         /\ jobs[j] # NoJob
         /\ jobs[j].provider = wprov[j]]_vars

\* C30: when GenerateVideo returns an error the worker fails the job with
\* the provider's error in the message and processJob ends: the row goes
\* from processing to failed when the update succeeds, and afterwards no
\* selection, no generation and no GetProgress call is made for the job.
C30_GenerationErrorFailsDirectly ==
  [][\A j \in JobIds :
       /\ (wpc[j] = "generate" /\ wjob'[j].errorMessage = GenerationErrorMessage) =>
            /\ wjob[j].status = JobStatusProcessing
            /\ wjob'[j].status = JobStatusFailed
            /\ wpc'[j] = "done"
            /\ dbErrs' = dbErrs =>
                 /\ jobs[j].status = JobStatusProcessing
                 /\ jobs'[j].status = JobStatusFailed
                 /\ jobs'[j].errorMessage = GenerationErrorMessage
                 /\ lastEvent'[j].type = "failed"
                 /\ lastEvent'[j].error_message = GenerationErrorMessage
       /\ (wjob[j] # NoJob /\ wjob[j].errorMessage = GenerationErrorMessage) =>
            /\ wpc[j] = "done"
            /\ wpc'[j] = "done"
            /\ wprov'[j] = wprov[j]
            /\ progressCalls[j] = 0
            /\ progressCalls'[j] = 0]_vars

\* C30 witness: GenerateVideo failed, the failed row is persisted with the
\* message, and the job's events are the start and the failure
C30_Witness ==
  \E j \in JobIds :
    /\ wpc[j] = "done"
    /\ jobs[j] # NoJob
    /\ jobs[j].status = JobStatusFailed
    /\ jobs[j].errorMessage = GenerationErrorMessage
    /\ events[j] = <<"status_update", "failed">>
    /\ progressCalls[j] = 0

(***************************************************************************)
(* Properties of the queue specification: what Dequeue leaves behind.      *)
(***************************************************************************)
\* C31: of a job that Dequeue has returned, neither the entry in the sorted
\* set nor the payload key is left in the queue's storage.
C31_DequeueRemovesEntryAndPayload ==
  \A i \in 1..Len(deqOrder) :
    /\ ~InQueue(zset, deqOrder[i])
    /\ jobData[deqOrder[i]] = NoJob

(***************************************************************************)
(* The worker with several jobs: intake, run's ticks and one processJob    *)
(* goroutine per dequeued job.                                             *)
(***************************************************************************)
PairPlan ==
  [script |-> <<>>,
   rest |-> {Processing(45),
             [err |-> FALSE, Percent |-> 100, Stage |-> "COMPLETED",
              Message |-> "progress"],
             [err |-> FALSE, Percent |-> 45, Stage |-> "FAILED",
              Message |-> "task failed"]}]

PairInit ==
  /\ QueueInitOver(WorkerJobIds)
  /\ now = 0
  /\ tickCap = MaxTicks
  /\ plan = PairPlan
  /\ IdleRestOver(WorkerJobIds)
  /\ HubInit
  /\ registry = {ProviderMock, ProviderGeminiVEO}
  /\ caps = SourceCapabilities
  /\ selReq = [absent |-> TRUE]
  /\ selEnv = [absent |-> TRUE]
  /\ selOut = [absent |-> TRUE]

PairIntake ==
  /\ \E id \in WorkerJobIds, outcome \in IntakeOutcomes :
       UCGenerateVideo("u1", id, DefaultDuration, 1, outcome)
  /\ UNCHANGED hvars

\* run's case <-ticker.C
PairDequeueTick ==
  /\ runpc = "running"
  /\ \E id \in {0} \cup WorkerJobIds, outcome \in DequeueOutcomes :
       processNextJob(id, outcome)
  /\ UNCHANGED hvars

PairWorkerStep ==
  /\ \E id \in WorkerJobIds, ok \in BOOLEAN :
       \/ StartJob(id, ok)
       \/ \E read \in {"ok", "templateErr", "userErr"} : SelectForJob(id, read, ok)
       \/ \E result \in GenerateVideoResults : GenerateForJob(id, result, ok)
       \/ \E progress \in GetProgressResults : PollTick(id, progress, ok)
       \/ \E got \in GetVideoURLResults : completeJob(id, got, ok)
       \/ FailPolledJob(id, ok)
  /\ UNCHANGED hvars

PairNext ==
  \/ PairIntake
  \/ PairDequeueTick
  \/ PairWorkerStep

SpecPair == PairInit /\ [][PairNext]_vars

\* the jobs that a step hands to processJob
StartedBy == {j \in WorkerJobIds : wpc[j] = "none" /\ wpc'[j] # "none"}

\* C32: a step starts at most one job, and only when it dequeues it; and
\* while run has not returned its tick can take place in every state,
\* whatever the jobs dequeued before are doing.
C32_DequeueNeverWaitsForJobs ==
  /\ [](runpc = "running" => ENABLED PairDequeueTick)
  /\ [][/\ Cardinality(StartedBy) <= 1
        /\ Len(deqOrder') <= Len(deqOrder) + 1
        /\ \A j \in StartedBy : deqOrder' = Append(deqOrder, j) /\ wpc'[j] = "start"]_vars

\* C32 witness: two jobs were dequeued one after the other, the second has
\* reached completed in the system of record and the first is still polled
C32_Witness ==
  /\ Len(deqOrder) = 2
  /\ wpc[deqOrder[1]] = "poll"
  /\ wpc[deqOrder[2]] = "done"
  /\ jobs[deqOrder[2]].status = JobStatusCompleted

\* C33: the hub's three indices agree: a client is in the by-user index,
\* under its own user id and no other, exactly when it is in the all-clients
\* set, and it is in the by-job index only if it is in the all-clients set,
\* and only under the job it is subscribed to.
C33_IndicesAgree ==
  \A c \in Clients :
    /\ \A u \in Users : c \in userClients[u] <=> (c \in clients /\ clientUserID[c] = u)
    /\ \A job \in HubJobs :
         c \in jobClients[job] => (c \in clients /\ clientJobID[c] = job)

\* the part of C33 about the by-user index alone
ByUserIndexAgrees ==
  \A c \in Clients :
    \A u \in Users : c \in userClients[u] <=> (c \in clients /\ clientUserID[c] = u)

\* C34: no message is ever sent on a client's outbound buffer after
\* unregisterClient has closed it, under any interleaving of unregistration
\* by the broadcaster, the client's read loop and later broadcasts.
C34_NoSendAfterClose == ~panicked

\* the credits given back for job id so far: the owner's balance less what
\* the debit of the job (the owner's only one) left of it
RefundedForJob(id) ==
  credits[jobs[id].userID] - (DefaultCredits - jobs[id].creditsCharged)

\* C35: the credits refunded for a job never exceed its CreditsCharged:
\* under concurrent or repeated CancelJob calls the refund is applied at
\* most once.
C35_RefundAtMostOnce ==
  \A id \in JobIds :
    jobs[id] # NoJob => RefundedForJob(id) <= jobs[id].creditsCharged

\* the latest CancelJob call returned nil for job id, which it had read as
\* pending
CancelledWhilePending(id) ==
  /\ cres # [absent |-> TRUE]
  /\ cres.job = id
  /\ cres.result = "ok"
  /\ cres.read = JobStatusPending

\* C36: a job cancelled by its owner while pending is never dispatched:
\* once CancelJob has succeeded on the pending job, no Dequeue returns it,
\* the worker never sets it to processing and never calls GenerateVideo
\* for it.
C36_CancelledNeverDispatched ==
  [][\A id \in JobIds :
       CancelledWhilePending(id) =>
         /\ ~(wpc[id] = "none" /\ wpc'[id] = "start")
         /\ ~(wpc[id] = "start" /\ jobs'[id].status = JobStatusProcessing)
         /\ ~(wpc[id] = "generate" /\ wpc'[id] # "generate")]_vars

\* C37: a polling tick whose GetProgress call errors while the count of
\* consecutive errors stays below the threshold leaves the job's row (status,
\* progress, provider handle) and its projection as they were and
\* broadcasts no event; only the attempt counter and the count of
\* consecutive errors advance, each by one.
C37_ErrorTickBelowThresholdIsSilent ==
  [][\A id \in JobIds :
       (errRun'[id] = errRun[id] + 1 /\ consecutiveErrors'[id] < maxConsecutiveErrors) =>
         /\ jobs' = jobs
         /\ statusProj' = statusProj
         /\ events' = events
         /\ lastEvent' = lastEvent
         /\ wjob' = wjob
         /\ wpc' = wpc
         /\ attempts'[id] = attempts[id] + 1
         /\ consecutiveErrors'[id] = consecutiveErrors[id] + 1]_vars

C37_Witness ==
  \E id \in JobIds :
    /\ wpc[id] = "poll"
    /\ errRun[id] = 2
    /\ consecutiveErrors[id] = 2
    /\ attempts[id] >= 3
    /\ jobs[id].providerJobID # Nil
    /\ jobs[id].progress > 0

\* the events with which the worker ends a job
TerminalEvents == {"completed", "failed"}

\* C38: the worker broadcasts at most one terminal event per job: completed
\* and failed are never both broadcast for one job, neither is broadcast
\* twice, and no status_update or progress_update is broadcast for a job
\* after its terminal event.
C38_OneTerminalEventAndNothingAfter ==
  \A j \in DOMAIN events :
    \A i \in 1..Len(events[j]) :
      events[j][i] \in TerminalEvents =>
        \A k \in (i + 1)..Len(events[j]) :
          events[j][k] \notin TerminalEvents \cup {"status_update", "progress_update"}

C38_Witness ==
  \E j \in DOMAIN events :
    /\ Len(events[j]) >= 3
    /\ events[j][1] = "status_update"
    /\ \E i \in 1..Len(events[j]) : events[j][i] = "progress_update"
    /\ events[j][Len(events[j])] \in TerminalEvents
    /\ wpc[j] = "done"

(***************************************************************************)
(* The queue under repeated dequeuing: run's ticker fires every second and *)
(* every tick calls Dequeue, whatever the call before it returned, so a    *)
(* Dequeue call that can change something is eventually made.              *)
(***************************************************************************)
DrainDequeue == QDequeue /\ UNCHANGED QueueRest

SpecDrain == QueueInit /\ [][QueueNext]_vars /\ WF_vars(DrainDequeue)

\* Enqueue returned nil for id
Enqueued(id) == id \in Range(enqOrder)

\* the payload of the enqueued job id has reached its TTL
PayloadExpired(id) == Enqueued(id) /\ jobData[id] = NoJob

\* some Dequeue call returned job id
ReturnedByDequeue(id) == id \in Range(deqOrder)

ReturnedUnlessCommandFailed ==
  \A id \in QueueJobIds :
    Enqueued(id) ~> (ReturnedByDequeue(id) \/ PayloadExpired(id) \/ dbErrs > 0)

\* a job was returned after an entry before it was found without payload
ReturnedAfterMissing ==
  \E a, b \in QueueJobIds :
    /\ enqOrder = <<a, b>>
    /\ PayloadExpired(a)
    /\ ~ReturnedByDequeue(a)
    /\ a \notin {e.member : e \in zset}
    /\ ReturnedByDequeue(b)
    /\ dbErrs = 0

\* VideoJob.UserID of the jobs the hub is asked about: A is u1's, B is u2's
HubJobOwner(job) == IF job = "A" THEN "u1" ELSE "u2"

\* C40: job events reach only clients of the job's owner: BroadcastToJob
\* never puts an event in the buffer of a client whose user id differs from
\* the owner of the job, whatever job id the client connected with or
\* subscribed to.
C40_EventsReachOwnerOnly ==
  bcast # NoBroadcast =>
    \A c \in bcast.sent : clientUserID[c] = HubJobOwner(bcast.job)

=============================================================================
